---- MODULE Spec2Model ----
(***************************************************************************)
(* WPCPP (Wii Pi Calculator Project Plus): the Spigot algorithm, the       *)
(* series algorithms, the digit formatter format_pi, the accuracy          *)
(* comparator compare_pi_accuracy, the menus and the result pages,         *)
(* modelled as state machines over decimal digit sequences.                *)
(*                                                                         *)
(* Representation.  A C++ string is a sequence of one-character strings.   *)
(* A report line is a sequence of text fragments: the characters of the    *)
(* digit strings and labels one by one, an ANSI colour escape as a single  *)
(* zero-width fragment, and a fixed sentence as one fragment.  An          *)
(* mpf_class value is a record [sgn, exp, dig] that stands for             *)
(* sgn * 0.d1 d2 ... dn * 10^exp with d1 # 0, the decimal expansion that   *)
(* mpf_get_str reads its digits from.                                      *)
(***************************************************************************)
EXTENDS Integers, Sequences, FiniteSets, TLC

(***************************************************************************)
(* Program constants                                                       *)
(***************************************************************************)
MAX_PI_DIGITS == 1000

TOTAL_LENGTH == MAX_PI_DIGITS + 3

\* precision_selection_menu keeps the precision in 1..50
PRECISION_MIN == 1

PRECISION_MAX == 50

\* the decimals of the reference literal pi_digits, after its leading "3."
PiDecimals ==
  <<
     1,4,1,5,9,2,6,5,3,5,8,9,7,9,3,2,3,8,4,6,2,6,4,3,3,8,3,2,7,9,5,0,2,8,8,4,1,9,7,1,6,9,3,9,9,3,7,5,1,0,
     5,8,2,0,9,7,4,9,4,4,5,9,2,3,0,7,8,1,6,4,0,6,2,8,6,2,0,8,9,9,8,6,2,8,0,3,4,8,2,5,3,4,2,1,1,7,0,6,7,9,
     8,2,1,4,8,0,8,6,5,1,3,2,8,2,3,0,6,6,4,7,0,9,3,8,4,4,6,0,9,5,5,0,5,8,2,2,3,1,7,2,5,3,5,9,4,0,8,1,2,8,
     4,8,1,1,1,7,4,5,0,2,8,4,1,0,2,7,0,1,9,3,8,5,2,1,1,0,5,5,5,9,6,4,4,6,2,2,9,4,8,9,5,4,9,3,0,3,8,1,9,6,
     4,4,2,8,8,1,0,9,7,5,6,6,5,9,3,3,4,4,6,1,2,8,4,7,5,6,4,8,2,3,3,7,8,6,7,8,3,1,6,5,2,7,1,2,0,1,9,0,9,1,
     4,5,6,4,8,5,6,6,9,2,3,4,6,0,3,4,8,6,1,0,4,5,4,3,2,6,6,4,8,2,1,3,3,9,3,6,0,7,2,6,0,2,4,9,1,4,1,2,7,3,
     7,2,4,5,8,7,0,0,6,6,0,6,3,1,5,5,8,8,1,7,4,8,8,1,5,2,0,9,2,0,9,6,2,8,2,9,2,5,4,0,9,1,7,1,5,3,6,4,3,6,
     7,8,9,2,5,9,0,3,6,0,0,1,1,3,3,0,5,3,0,5,4,8,8,2,0,4,6,6,5,2,1,3,8,4,1,4,6,9,5,1,9,4,1,5,1,1,6,0,9,4,
     3,3,0,5,7,2,7,0,3,6,5,7,5,9,5,9,1,9,5,3,0,9,2,1,8,6,1,1,7,3,8,1,9,3,2,6,1,1,7,9,3,1,0,5,1,1,8,5,4,8,
     0,7,4,4,6,2,3,7,9,9,6,2,7,4,9,5,6,7,3,5,1,8,8,5,7,5,2,7,2,4,8,9,1,2,2,7,9,3,8,1,8,3,0,1,1,9,4,9,1,2,
     9,8,3,3,6,7,3,3,6,2,4,4,0,6,5,6,6,4,3,0,8,6,0,2,1,3,9,4,9,4,6,3,9,5,2,2,4,7,3,7,1,9,0,7,0,2,1,7,9,8,
     6,0,9,4,3,7,0,2,7,7,0,5,3,9,2,1,7,1,7,6,2,9,3,1,7,6,7,5,2,3,8,4,6,7,4,8,1,8,4,6,7,6,6,9,4,0,5,1,3,2,
     0,0,0,5,6,8,1,2,7,1,4,5,2,6,3,5,6,0,8,2,7,7,8,5,7,7,1,3,4,2,7,5,7,7,8,9,6,0,9,1,7,3,6,3,7,1,7,8,7,2,
     1,4,6,8,4,4,0,9,0,1,2,2,4,9,5,3,4,3,0,1,4,6,5,4,9,5,8,5,3,7,1,0,5,0,7,9,2,2,7,9,6,8,9,2,5,8,9,2,3,5,
     4,2,0,1,9,9,5,6,1,1,2,1,2,9,0,2,1,9,6,0,8,6,4,0,3,4,4,1,8,1,5,9,8,1,3,6,2,9,7,7,4,7,7,1,3,0,9,9,6,0,
     5,1,8,7,0,7,2,1,1,3,4,9,9,9,9,9,9,8,3,7,2,9,7,8,0,4,9,9,5,1,0,5,9,7,3,1,7,3,2,8,1,6,0,9,6,3,1,8,5,9,
     5,0,2,4,4,5,9,4,5,5,3,4,6,9,0,8,3,0,2,6,4,2,5,2,2,3,0,8,2,5,3,3,4,4,6,8,5,0,3,5,2,6,1,9,3,1,1,8,8,1,
     7,1,0,1,0,0,0,3,1,3,7,8,3,8,7,5,2,8,8,6,5,8,7,5,3,3,2,0,8,3,8,1,4,2,0,6,1,7,1,7,7,6,6,9,1,4,7,3,0,3,
     5,9,8,2,5,3,4,9,0,4,2,8,7,5,5,4,6,8,7,3,1,1,5,9,5,6,2,8,6,3,8,8,2,3,5,3,7,8,7,5,9,3,7,5,1,9,5,7,7,8,
     1,8,5,7,7,8,0,5,3,2,1,7,1,2,2,6,8,0,6,6,1,3,0,0,1,9,2,7,8,7,6,6,1,1,1,9,5,9,0,9,2,1,6,4,2,0,1,9,8,9
  >>

Digit == <<"0", "1", "2", "3", "4", "5", "6", "7", "8", "9">>

\* the character of a decimal digit
Chr(d) == Digit[d + 1]

\* const char *pi_digits: "3." and 1000 decimals
pi_digits == <<"3", ".">> \o [i \in 1..MAX_PI_DIGITS |-> Chr(PiDecimals[i])]

\* the first m significant digits of pi, as numbers
PiSig(m) == SubSeq(<<3>> \o PiDecimals, 1, m)

Min(a, b) == IF a < b THEN a ELSE b

(***************************************************************************)
(* std::string and stdio helpers                                           *)
(***************************************************************************)
\* std::string::substr(pos, n); pos <= size() in every call the code makes
substr(s, pos, n) == SubSeq(s, pos + 1, Min(pos + n, Len(s)))

\* snprintf(buf, size, "%s", s): at most size - 1 characters are stored
snprintf(size, s) == IF Len(s) > size - 1 THEN SubSeq(s, 1, size - 1) ELSE s

\* std::string(n, ' ')
Spaces(n) == [i \in 1..n |-> " "]

\* std::to_string(int)
to_string(n) == ToString(n)

(***************************************************************************)
(* mpf_get_str(NULL, &exp, 10, n_digits, op) of GMP, on the decimal        *)
(* expansion of op: at most n_digits digits are produced, the last one     *)
(* rounded to nearest on the digit that follows (half goes up), a carry    *)
(* out of the first digit gives "1" and raises the exponent, and trailing  *)
(* zeros are removed.                                                      *)
(***************************************************************************)
RECURSIVE StripZeros(_)
StripZeros(s) ==
  IF s # <<>> /\ s[Len(s)] = 0 THEN StripZeros(SubSeq(s, 1, Len(s) - 1)) ELSE s

\* add one unit in the last place; <<>> when every digit was 9
RECURSIVE RoundUpDigits(_)
RoundUpDigits(s) ==
  IF s = <<>> THEN <<>>
  ELSE IF s[Len(s)] = 9 THEN RoundUpDigits(SubSeq(s, 1, Len(s) - 1))
  ELSE [s EXCEPT ![Len(s)] = @ + 1]

get_str(op, n_digits) ==
  LET d    == op.dig
      kept == IF Len(d) > n_digits THEN SubSeq(d, 1, n_digits) ELSE d
      nxt  == IF Len(d) > n_digits THEN d[n_digits + 1] ELSE 0
      up   == RoundUpDigits(kept)
  IN  IF nxt * 2 >= 10
      THEN IF up = <<>> THEN [str |-> <<1>>, exp |-> op.exp + 1]
                        ELSE [str |-> StripZeros(up), exp |-> op.exp]
      ELSE [str |-> StripZeros(kept), exp |-> op.exp]

(***************************************************************************)
(* format_pi (utility.cpp)                                                 *)
(***************************************************************************)
format_pi(pi_value, prec) ==
  LET working_precision == prec + 1
      raw        == get_str(pi_value, working_precision + 1).str
      pi_str_raw == (IF pi_value.sgn < 0 THEN <<"-">> ELSE <<>>)
                      \o [i \in 1..Len(raw) |-> Chr(raw[i])]
      inserted   == <<pi_str_raw[1], ".">> \o Tail(pi_str_raw)
      resized    == IF Len(inserted) > prec + 2 THEN SubSeq(inserted, 1, prec + 2)
                                                ELSE inserted
  IN  snprintf(TOTAL_LENGTH, resized)

(***************************************************************************)
(* AccuracyReport (utility.hpp)                                            *)
(***************************************************************************)
AccuracyReport == [report_lines |-> <<>>, mismatch_index |-> -1]

add_line(r, line) == [r EXCEPT !.report_lines = Append(@, line)]

\* set_mismatch_index storing the number of the decimal instead of the character index
set_mismatch_index_decimal(r, index) == [r EXCEPT !.mismatch_index = index - 1]

set_mismatch_index(r, index) == [r EXCEPT !.mismatch_index = index]

(***************************************************************************)
(* compare_pi_accuracy (utility.cpp)                                       *)
(***************************************************************************)
actual_pi_label == <<"A", "c", "t", "u", "a", "l", " ", "P", "i", ":", " ", " ", " ", " ", " ">>

calculated_pi_label == <<"C", "a", "l", "c", "u", "l", "a", "t", "e", "d", " ", "P", "i", ":", " ">>

max_line_width == 60

available_width == max_line_width - Len(actual_pi_label)

prefix_len == 8

ellipsis == <<".", ".", ".">>

\* the context with the room of the prefix left in
context_len_without_prefix == available_width - Len(ellipsis)

context_len == available_width - prefix_len - Len(ellipsis)

\* the ANSI escapes "\x1b[31m" and "\x1b[37m": one fragment each, no display width
red == "ESC[31m"

reset_color == "ESC[37m"

\* the reference cut to precision + 2 characters
actual_pi_str(prec) == snprintf(prec + 3, pi_digits)

\* the loop that finds the first mismatch, for the indices lo <= i < hi: the
\* least such i for which the loop body breaks, -1 when there is none
RECURSIVE find_mismatch(_, _, _, _)
find_mismatch(actual, calc, lo, hi) ==
  IF lo >= hi THEN -1
  ELSE IF hi = lo + 1
       THEN IF lo >= Len(calc) \/ actual[lo + 1] # calc[lo + 1] THEN lo ELSE -1
  ELSE LET left == find_mismatch(actual, calc, lo, (lo + hi) \div 2)
       IN  IF left # -1 THEN left ELSE find_mismatch(actual, calc, (lo + hi) \div 2, hi)

\* the search started after the "3." prefix
first_mismatch_after_prefix(actual, calc) == find_mismatch(actual, calc, 2, Len(actual))

\* for (size_t i = 0; i < actual_pi_str.length(); ++i)
first_mismatch(actual, calc) == find_mismatch(actual, calc, 0, Len(actual))

\* the preview cut to the width, without the "..."
truncated_display_plain(s) == substr(s, 0, available_width)

\* the preview of a string that is longer than the available width
truncated_display(s) == substr(s, 0, available_width - 3) \o ellipsis

success_report(result, actual, calc, prec) ==
  LET long           == Len(actual) > available_width
      actual_display == IF long THEN truncated_display(actual) ELSE actual
      calc_display   == IF long THEN truncated_display(calc) ELSE calc
      r1 == add_line(result, actual_pi_label \o actual_display)
      r2 == add_line(r1, calculated_pi_label \o calc_display)
  IN  add_line(r2, <<"All ", to_string(prec), " digit(s) after the decimal are correct!">>)

arrow(pos) == Spaces(pos) \o <<red, "^", reset_color>>

\* Case 3: where the context window starts
context_start(mismatch_idx, actual_len) ==
  IF (mismatch_idx - (context_len \div 2)) + context_len >= actual_len
  THEN actual_len - context_len
  ELSE mismatch_idx - (context_len \div 2)

\* the column of the caret with the length of the ellipsis forgotten
arrow_pos_without_ellipsis(mismatch_idx, start) ==
  Len(calculated_pi_label) + prefix_len + (mismatch_idx - start)

\* Case 3: the column of the caret
arrow_pos(mismatch_idx, start) ==
  Len(calculated_pi_label) + prefix_len + Len(ellipsis) + (mismatch_idx - start)

\* the three display lines of a mismatch: Actual, Calculated, arrow
mismatch_display(actual, calc, mismatch_idx) ==
  IF Len(actual) <= available_width
  THEN \* Case 1: the full string fits on one line
       [actual_display |-> actual,
        calc_display   |-> calc,
        arrow_line     |-> arrow(Len(calculated_pi_label) + mismatch_idx)]
  ELSE IF mismatch_idx < available_width - 4
  THEN \* Case 2: long string, mismatch near the start
       [actual_display |-> truncated_display(actual),
        calc_display   |-> truncated_display(calc),
        arrow_line     |-> arrow(Len(calculated_pi_label) + mismatch_idx)]
  ELSE \* Case 3: long string, mismatch far to the right
       LET start  == context_start(mismatch_idx, Len(actual))
           prefix == substr(actual, 0, prefix_len)
       IN  [actual_display |-> prefix \o ellipsis \o substr(actual, start, context_len),
            calc_display   |-> prefix \o ellipsis \o substr(calc, start, context_len),
            arrow_line     |-> arrow(arrow_pos(mismatch_idx, start))]

mismatch_line(mismatch_idx) ==
  <<"First mismatch at: ", to_string(mismatch_idx - 1), " digit(s) after the decimal">>

\* mismatch_report with the call of set_mismatch_index left out
mismatch_report_without_index(result, actual, calc, mismatch_idx) ==
  LET d  == mismatch_display(actual, calc, mismatch_idx)
      r0 == result
      r1 == add_line(r0, actual_pi_label \o d.actual_display)
      r2 == add_line(r1, calculated_pi_label \o d.calc_display)
      r3 == add_line(r2, d.arrow_line)
  IN  add_line(r3, mismatch_line(mismatch_idx))

mismatch_report(result, actual, calc, mismatch_idx) ==
  LET d  == mismatch_display(actual, calc, mismatch_idx)
      r0 == set_mismatch_index(result, mismatch_idx)
      r1 == add_line(r0, actual_pi_label \o d.actual_display)
      r2 == add_line(r1, calculated_pi_label \o d.calc_display)
      r3 == add_line(r2, d.arrow_line)
  IN  add_line(r3, mismatch_line(mismatch_idx))

\* compare_pi_accuracy with the test calculated_pi == 0 in the place of <= 0
compare_pi_accuracy_zero_only(calculated_pi, prec) ==
  IF calculated_pi.sgn = 0
  THEN add_line(AccuracyReport, <<"Invalid input: Pi cannot be less than or equal to zero.">>)
  ELSE LET calc         == format_pi(calculated_pi, prec)
           actual       == actual_pi_str(prec)
           mismatch_idx == first_mismatch(actual, calc)
       IN  IF mismatch_idx = -1
           THEN success_report(AccuracyReport, actual, calc, prec)
           ELSE mismatch_report(AccuracyReport, actual, calc, mismatch_idx)

compare_pi_accuracy(calculated_pi, prec) ==
  IF calculated_pi.sgn <= 0
  THEN add_line(AccuracyReport, <<"Invalid input: Pi cannot be less than or equal to zero.">>)
  ELSE LET calc         == format_pi(calculated_pi, prec)
           actual       == actual_pi_str(prec)
           mismatch_idx == first_mismatch(actual, calc)
       IN  IF mismatch_idx = -1
           THEN success_report(AccuracyReport, actual, calc, prec)
           ELSE mismatch_report(AccuracyReport, actual, calc, mismatch_idx)

(***************************************************************************)
(* mpf_class arithmetic of calculate_pi_spigot.  The accumulator pi is a   *)
(* fixed-point decimal: cell 1 is the units digit, cell k + 1 the digit of *)
(* 10^-k, down to 10^-WorkDigits.  The multiplier is always a power of     *)
(* ten, 10^-k, and is kept as k.  GMP truncates every quotient and sum in  *)
(* binary, so the value that is returned is the decimal sum or falls short *)
(* of it by less than one unit of the last working place.                  *)
(*                                                                         *)
(* WorkDigits: mpf_set_default_prec(167) gives every mpf_class             *)
(* (167 + 2 * limb - 1) / limb limbs of precision, 7 limbs of 32 bits or   *)
(* 4 limbs of 64 bits, so never fewer than 193 significant bits, which is  *)
(* 58 decimal digits.                                                      *)
(***************************************************************************)
WorkDigits == 58

\* mpf_class pi = 0.0
mpf_zero == [i \in 1..(WorkDigits + 1) |-> 0]

\* add d units to cell idx, with the carry into the cells to its left
RECURSIVE add_at(_, _, _)
add_at(acc, idx, d) ==
  IF idx = 0 \/ d = 0 THEN acc
  ELSE IF acc[idx] + d >= 10
       THEN add_at([acc EXCEPT ![idx] = @ + d - 10], idx - 1, 1)
       ELSE [acc EXCEPT ![idx] = @ + d]

\* pi += digit * multiplier, with multiplier = 10^-k
add_scaled(acc, digit, k) ==
  IF k + 1 > Len(acc) THEN acc ELSE add_at(acc, k + 1, digit)

\* for (k = 0; k < nines; ++k) { pi += 9 * multiplier; multiplier /= ten; }
RECURSIVE add_nines(_, _, _)
add_nines(acc, k, n) ==
  IF n = 0 THEN [pi |-> acc, multiplier |-> k]
  ELSE add_nines(add_scaled(acc, 9, k), k + 1, n - 1)

\* commit with the first "multiplier /= ten" left out
commit_without_shift(acc, k, digit, n) == add_nines(add_scaled(acc, digit, k), k, n)

\* pi += digit * multiplier; multiplier /= ten; then the loop over the nines
commit(acc, k, digit, n) == add_nines(add_scaled(acc, digit, k), k + 1, n)

\* the code after the outer loop: the last predigit, then the trailing nines
spigot_finish(acc, k, digit, n) ==
  LET last == add_scaled(acc, digit, k)
  IN  IF n > 0 THEN add_nines(last, k, n).pi ELSE last

\* one unit of the last working place less
RECURSIVE borrow_at(_, _)
borrow_at(acc, idx) ==
  IF idx = 0 THEN acc
  ELSE IF acc[idx] = 0 THEN borrow_at([acc EXCEPT ![idx] = 9], idx - 1)
  ELSE [acc EXCEPT ![idx] = @ - 1]

\* the mpf_class value of an accumulator, err units of the last place short
to_mpf(acc, err) ==
  LET a  == IF err = 0 THEN acc ELSE borrow_at(acc, Len(acc))
      nz == {i \in 1..Len(a) : a[i] # 0}
  IN  IF nz = {} THEN [sgn |-> 0, exp |-> 0, dig |-> <<>>]
      ELSE LET first == CHOOSE i \in nz : \A i2 \in nz : i <= i2
           IN  [sgn |-> 1, exp |-> 2 - first,
                dig |-> StripZeros(SubSeq(a, first, Len(a)))]

(***************************************************************************)
(* calculate_pi_spigot (pi_calculation.cpp)                                *)
(***************************************************************************)
\* const int N = precision + 2
spigot_N(prec) == prec + 2

\* int len = floor(10 * N / 3) + 1, an integer division
spigot_len(N) == (10 * N) \div 3 + 1

\* one turn of the inner loop: x = 10 * A[i - 1] + q * i, then the remainder
\* goes back to A[i - 1] and the quotient to q; st.A[i] is A[i - 1] of the code
spigot_inner(st, i) ==
  LET x == 10 * st.A[i] + st.q * i
  IN  [A |-> [st.A EXCEPT ![i] = x % (2 * i - 1)], q |-> x \div (2 * i - 1)]

\* the turns i = hi, hi - 1, ..., lo of the inner loop, in that order: the upper
\* half of the range first, then the lower half on its result.  A quotient is
\* never negative; the test on it makes the upper half be evaluated first.
RECURSIVE spigot_pass(_, _, _)
spigot_pass(st, hi, lo) ==
  IF hi < lo THEN st
  ELSE IF hi = lo THEN spigot_inner(st, hi)
  ELSE LET upper == spigot_pass(st, hi, (hi + lo) \div 2 + 1)
       IN  IF upper.q < 0 THEN upper ELSE spigot_pass(upper, (hi + lo) \div 2, lo)

\* the inner loop and A[0] = q % 10, with q = q / 10 left out
spigot_digit_undivided(arr) ==
  LET r == spigot_pass([A |-> arr, q |-> 0], Len(arr), 1)
  IN  [A |-> [r.A EXCEPT ![1] = r.q % 10], q |-> r.q]

\* the inner loop, then A[0] = q % 10 and q = q / 10
spigot_digit(arr) ==
  LET r == spigot_pass([A |-> arr, q |-> 0], Len(arr), 1)
  IN  [A |-> [r.A EXCEPT ![1] = r.q % 10], q |-> r.q \div 10]

(***************************************************************************)
(* mpf_class arithmetic of the series algorithms (GMP).  A number is       *)
(* sgn * 0.L1 L2 L3 ... * LimbBase^exp, with limbs L1, L2, ... of three    *)
(* decimal digits in the place of GMP's limbs of 32 or 64 bits, L1 not 0.  *)
(* As in GMP a result keeps PrecLimbs + 1 limbs and what lies beyond is    *)
(* cut off: 19 limbs and one more are never fewer than 58 decimal digits,  *)
(* the least that mpf_set_default_prec(167) gives.                         *)
(***************************************************************************)
LimbBase == 1000

PrecLimbs == 19

mpf_0 == [sgn |-> 0, exp |-> 0, limbs |-> <<>>]

\* limbs without the zero limbs at their end
RECURSIVE strip_low(_)
strip_low(s) ==
  IF s # <<>> /\ s[Len(s)] = 0 THEN strip_low(SubSeq(s, 1, Len(s) - 1)) ELSE s

\* the number of zero limbs at the start of s
leading_zeros(s) ==
  LET nz == {i \in 1..Len(s) : s[i] # 0}
  IN  IF nz = {} THEN Len(s) ELSE (CHOOSE i \in nz : \A i2 \in nz : i <= i2) - 1

\* the number sgn * 0.s * LimbBase^exp in its normal form, cut to PrecLimbs + 1 limbs
mpf_normal(sgn, exp, s) ==
  LET z    == leading_zeros(s)
      kept == SubSeq(s, z + 1, Min(Len(s), z + PrecLimbs + 1))
  IN  IF z = Len(s) \/ sgn = 0 THEN mpf_0
      ELSE [sgn |-> sgn, exp |-> exp - z, limbs |-> strip_low(kept)]

\* the carries of a sequence of limb sums, from the last limb to the first;
\* the result is one limb longer and starts with the last carry
RECURSIVE carry_limbs(_, _, _)
carry_limbs(c, i, carry) ==
  IF i = 0 THEN <<carry>>
  ELSE carry_limbs(c, i - 1, (c[i] + carry) \div LimbBase) \o <<(c[i] + carry) % LimbBase>>

\* the limb of x at place pos of a number with the exponent exp
limb_at(x, exp, pos) ==
  LET i == pos - (exp - x.exp)
  IN  IF i >= 1 /\ i <= Len(x.limbs) THEN x.limbs[i] ELSE 0

\* -1, 0 or 1 as |x| is less than, equal to or greater than |y|
mpf_cmpabs(x, y) ==
  IF x.sgn = 0 \/ y.sgn = 0 THEN (IF x.sgn # 0 THEN 1 ELSE IF y.sgn # 0 THEN -1 ELSE 0)
  ELSE IF x.exp # y.exp THEN (IF x.exp > y.exp THEN 1 ELSE -1)
  ELSE LET n == IF Len(x.limbs) > Len(y.limbs) THEN Len(x.limbs) ELSE Len(y.limbs)
           D == {i \in 1..n : limb_at(x, x.exp, i) # limb_at(y, x.exp, i)}
       IN  IF D = {} THEN 0
           ELSE LET i == CHOOSE i \in D : \A i2 \in D : i <= i2
                IN  IF limb_at(x, x.exp, i) > limb_at(y, x.exp, i) THEN 1 ELSE -1

\* mpf_cmp
mpf_cmp(x, y) ==
  IF x.sgn # y.sgn THEN (IF x.sgn > y.sgn THEN 1 ELSE -1)
  ELSE x.sgn * mpf_cmpabs(x, y)

mpf_neg(x) == [x EXCEPT !.sgn = -x.sgn]

\* |x| + |y| with the sign sgn
add_abs(sgn, x, y) ==
  LET e == IF x.exp > y.exp THEN x.exp ELSE y.exp
      c == [pos \in 1..(PrecLimbs + 2) |-> limb_at(x, e, pos) + limb_at(y, e, pos)]
  IN  mpf_normal(sgn, e + 1, carry_limbs(c, Len(c), 0))

\* |x| - |y| with the sign sgn, for |x| >= |y|
sub_abs(sgn, x, y) ==
  LET e == x.exp
      c == [pos \in 1..(PrecLimbs + 2) |-> limb_at(x, e, pos) - limb_at(y, e, pos)]
  IN  mpf_normal(sgn, e + 1, carry_limbs(c, Len(c), 0))

\* mpf_add
mpf_add(x, y) ==
  IF x.sgn = 0 THEN y
  ELSE IF y.sgn = 0 THEN x
  ELSE IF x.sgn = y.sgn THEN add_abs(x.sgn, x, y)
  ELSE IF mpf_cmpabs(x, y) >= 0 THEN sub_abs(x.sgn, x, y)
  ELSE sub_abs(y.sgn, y, x)

\* mpf_sub
mpf_sub(x, y) == mpf_add(x, mpf_neg(y))

\* the sum of the limb products x[i] * y[q + 1 - i]
RECURSIVE limb_products(_, _, _, _)
limb_products(x, y, q, i) ==
  IF i > Len(x) \/ i > q THEN 0
  ELSE (IF q + 1 - i <= Len(y) THEN x[i] * y[q + 1 - i] ELSE 0) + limb_products(x, y, q, i + 1)

\* mpf_mul
mpf_mul(x, y) ==
  IF x.sgn = 0 \/ y.sgn = 0 THEN mpf_0
  ELSE LET c == [q \in 1..(Len(x.limbs) + Len(y.limbs) - 1) |->
                   limb_products(x.limbs, y.limbs, q, 1)]
       IN  mpf_normal(x.sgn * y.sgn, x.exp + y.exp, carry_limbs(c, Len(c), 0))

\* the limbs of a natural number, the first limb first
RECURSIVE limbs_of(_)
limbs_of(n) == IF n = 0 THEN <<>> ELSE limbs_of(n \div LimbBase) \o <<n % LimbBase>>

\* mpf_class(n) of an int n
mpf_of_int(n) ==
  IF n = 0 THEN mpf_0
  ELSE LET m == IF n < 0 THEN -n ELSE n
       IN  mpf_normal(IF n < 0 THEN -1 ELSE 1, Len(limbs_of(m)), limbs_of(m))

\* the limbs of r - q * d with their carries, for limbs r and d of one length;
\* the first of them is negative when q * d is greater than r
div_rest(r, d, q) == carry_limbs([i \in 1..Len(r) |-> r[i] - q * d[i]], Len(r), 0)

\* the greatest q from q on with q * d <= r
RECURSIVE div_correct(_, _, _)
div_correct(r, d, q) ==
  IF div_rest(r, d, q + 1)[1] < 0 THEN q ELSE div_correct(r, d, q + 1)

\* the next limb of the quotient of r by d: an estimate from the first limbs, corrected
div_limb(r, d) ==
  div_correct(r, d, (r[1] * LimbBase * LimbBase + r[2] * LimbBase + r[3])
                      \div (d[2] * LimbBase + d[3] + 1))

\* n limbs of the quotient of r by d, for r < d * LimbBase
RECURSIVE div_limbs(_, _, _)
div_limbs(r, d, n) ==
  IF n = 0 THEN <<>>
  ELSE LET q    == div_limb(r, d)
           rest == div_rest(r, d, q)
       IN  <<q>> \o div_limbs(SubSeq(rest, 3, Len(rest)) \o <<0>>, d, n - 1)

\* mpf_div, for y not 0
mpf_div(x, y) ==
  IF x.sgn = 0 THEN mpf_0
  ELSE LET m == IF Len(x.limbs) > Len(y.limbs) THEN Len(x.limbs) ELSE Len(y.limbs)
           n == IF m < 2 THEN 2 ELSE m
           r == <<0>> \o [i \in 1..n |-> limb_at(x, x.exp, i)]
           d == <<0>> \o [i \in 1..n |-> limb_at(y, y.exp, i)]
       IN  mpf_normal(x.sgn * y.sgn, x.exp - y.exp + 1, div_limbs(r, d, PrecLimbs + 2))

\* the square root of a natural number below LimbBase^2, rounded down
isqrt(n) == CHOOSE g \in 0..LimbBase : g * g <= n /\ (g + 1) * (g + 1) > n

\* Newton's steps from a value above the root, until they no longer descend
RECURSIVE sqrt_steps(_, _)
sqrt_steps(x, g) ==
  LET g2 == mpf_div(mpf_add(g, mpf_div(x, g)), mpf_of_int(2))
  IN  IF mpf_cmp(g2, g) >= 0 THEN g ELSE sqrt_steps(x, g2)

\* sqrt of an mpf_class, for x >= 0, to within the last limb
mpf_sqrt(x) ==
  IF x.sgn = 0 THEN mpf_0
  ELSE LET even == x.exp % 2 = 0
           top  == IF even THEN limb_at(x, x.exp, 1) * LimbBase + limb_at(x, x.exp, 2)
                   ELSE limb_at(x, x.exp, 1)
           half == IF even THEN x.exp \div 2 - 1 ELSE (x.exp - 1) \div 2
           g    == mpf_of_int(isqrt(top) + 1)
       IN  sqrt_steps(x, [g EXCEPT !.exp = g.exp + half])

\* mpf_pow_ui
RECURSIVE mpf_pow_ui(_, _)
mpf_pow_ui(x, n) ==
  IF n = 0 THEN mpf_of_int(1)
  ELSE IF n % 2 = 0 THEN LET h == mpf_pow_ui(x, n \div 2) IN mpf_mul(h, h)
  ELSE mpf_mul(x, mpf_pow_ui(x, n - 1))

\* the decimal digits of a sequence of limbs
limb_digits(s) ==
  [i \in 1..(3 * Len(s)) |->
     LET l == s[(i + 2) \div 3]
     IN  IF i % 3 = 1 THEN l \div 100 ELSE IF i % 3 = 2 THEN (l \div 10) % 10 ELSE l % 10]

\* the value of an mpf_class as sign, decimal exponent and decimal digits
mpf_decimal(x) ==
  IF x.sgn = 0 THEN [sgn |-> 0, exp |-> 0, dig |-> <<>>]
  ELSE LET d == limb_digits(x.limbs)
           z == IF d[1] # 0 THEN 0 ELSE IF d[2] # 0 THEN 1 ELSE 2
       IN  [sgn |-> x.sgn, exp |-> 3 * x.exp - z,
            dig |-> StripZeros(SubSeq(d, z + 1, Len(d)))]

(***************************************************************************)
(* State                                                                   *)
(***************************************************************************)
VARIABLES
  pc,              \* position in main and in calculate_and_display_pi
  precision,       \* the precision argument
  value,           \* mpf_class pi of calculate_and_display_pi
  calculated_str,  \* pi_full_string, the result of format_pi
  report,          \* accuracy_info, the result of compare_pi_accuracy
  A,               \* calculate_pi_spigot: the array A
  j,               \* calculate_pi_spigot: the outer loop counter
  nines,           \* calculate_pi_spigot: the buffered nines
  predigit,        \* calculate_pi_spigot: the pending digit
  pi,              \* calculate_pi_spigot: the accumulator pi
  multiplier,      \* calculate_pi_spigot: k, for the multiplier 10^-k
  gc_state,        \* input.cpp: buttons held on the GameCube controller at the last poll
  gc_last_state,   \* input.cpp: gc_state of the poll before
  wii_state,       \* input.cpp: buttons held on the Wii Remote at the last poll
  wii_last_state,  \* input.cpp: wii_state of the poll before
  wpad_held,       \* libogc: buttons held on the Wii Remote at the last WPAD_ScanPads
  method,          \* main: the method index
  selected_index,  \* method_selection_menu: the highlighted method
  step_size,       \* precision_selection_menu: the step
  button_last,     \* the menus' button_*_last flags
  time_taken,      \* calculate_and_display_pi: the elapsed time, in microseconds
  current_page,    \* calculate_and_display_pi: the page shown
  needs_redraw,    \* calculate_and_display_pi: the page has to be drawn
  screen,          \* the lines on the console since it was cleared
  locals           \* the local variables of the series algorithm that is running

spigot_vars == <<A, j, nines, predigit, pi, multiplier>>

input_vars == <<gc_state, gc_last_state, wii_state, wii_last_state, wpad_held>>

menu_vars == <<method, selected_index, step_size, button_last>>

page_vars == <<time_taken, current_page, needs_redraw>>

shell_vars == <<input_vars, menu_vars, page_vars, screen>>

vars == <<pc, precision, value, calculated_str, report, spigot_vars, shell_vars, locals>>

NoValue == [sgn |-> 0, exp |-> 0, dig |-> <<>>]

\* no series algorithm is running
NoLocals == [fn |-> "none"]

\* the flags button_*_last of a menu that has just been entered
NoButtonLast == [a |-> FALSE, l |-> FALSE, r |-> FALSE, left |-> FALSE, right |-> FALSE]

\* the state around a call of calculate_and_display_pi taken alone: no button
\* held, the menus at their initial values, the clock not read
ShellIdle ==
  /\ gc_state = {}
  /\ gc_last_state = {}
  /\ wii_state = {}
  /\ wii_last_state = {}
  /\ wpad_held = {}
  /\ method = 0
  /\ selected_index = 0
  /\ step_size = 1
  /\ button_last = NoButtonLast
  /\ time_taken = 0
  /\ current_page = 0
  /\ needs_redraw = TRUE
  /\ screen = <<>>
  /\ locals = NoLocals

(***************************************************************************)
(* calculate_and_display_pi(5, precision): the Spigot algorithm, one       *)
(* action for each branch of an outer step and one for the return          *)
(***************************************************************************)
Init ==
  /\ precision \in PRECISION_MIN..PRECISION_MAX
  /\ pc = "spigot"
  /\ A = [i \in 1..spigot_len(spigot_N(precision)) |-> 2]
  /\ j = 1
  /\ nines = 0
  /\ predigit = 0
  /\ pi = mpf_zero
  /\ multiplier = 0
  /\ value = NoValue
  /\ calculated_str = <<>>
  /\ report = AccuracyReport
  /\ ShellIdle

\* if (q == 9)
SpigotNine ==
  /\ pc = "spigot"
  /\ j <= spigot_N(precision)
  /\ LET step == spigot_digit(A)
     IN  /\ step.q = 9
         /\ A' = step.A
         /\ nines' = nines + 1
  /\ j' = j + 1
  /\ UNCHANGED <<shell_vars, locals>>
  /\ UNCHANGED <<pc, precision, value, calculated_str, report, predigit, pi, multiplier>>

\* else if (q == 10)
SpigotTen ==
  /\ pc = "spigot"
  /\ j <= spigot_N(precision)
  /\ LET step == spigot_digit(A)
         done == commit(pi, multiplier, predigit + 1, nines)
     IN  /\ step.q = 10
         /\ A' = step.A
         /\ pi' = done.pi
         /\ multiplier' = done.multiplier
  /\ predigit' = 0
  /\ nines' = 0
  /\ j' = j + 1
  /\ UNCHANGED <<shell_vars, locals>>
  /\ UNCHANGED <<pc, precision, value, calculated_str, report>>

\* else
SpigotDigit ==
  /\ pc = "spigot"
  /\ j <= spigot_N(precision)
  /\ LET step == spigot_digit(A)
         done == commit(pi, multiplier, predigit, nines)
     IN  /\ step.q \notin {9, 10}
         /\ A' = step.A
         /\ pi' = done.pi
         /\ multiplier' = done.multiplier
         /\ predigit' = step.q
  /\ nines' = 0
  /\ j' = j + 1
  /\ UNCHANGED <<shell_vars, locals>>
  /\ UNCHANGED <<pc, precision, value, calculated_str, report>>

\* the code after the loop, and return pi
SpigotReturn ==
  /\ pc = "spigot"
  /\ j > spigot_N(precision)
  /\ \E err \in {0, 1} :
       /\ pi' = spigot_finish(pi, multiplier, predigit, nines)
       /\ value' = to_mpf(pi', err)
  /\ pc' = "computed"
  /\ UNCHANGED <<shell_vars, locals>>
  /\ UNCHANGED <<precision, calculated_str, report, A, j, nines, predigit, multiplier>>

(***************************************************************************)
(* calculate_and_display_pi, after the algorithm has returned              *)
(***************************************************************************)
FormatPi ==
  /\ pc = "computed"
  /\ calculated_str' = format_pi(value, precision)
  /\ pc' = "formatted"
  /\ UNCHANGED <<shell_vars, locals>>
  /\ UNCHANGED <<precision, value, report, spigot_vars>>

ComparePiAccuracy ==
  /\ pc = "formatted"
  /\ report' = compare_pi_accuracy(value, precision)
  /\ pc' = "reported"
  /\ UNCHANGED <<shell_vars, locals>>
  /\ UNCHANGED <<precision, value, calculated_str, spigot_vars>>

(***************************************************************************)
(* The formatter and the comparator on bounded inputs: values that agree   *)
(* with pi on their first m significant digits and go on with a tail.      *)
(***************************************************************************)
MaxPrec == 56

Slack == 2

EdgeWindow == 20

Stride == 97

Tails == {<<>>, <<0>>, <<4>>, <<5>>, <<9, 9, 5>>}

UtilityPrecisions == (1..MaxPrec) \cup {MAX_PI_DIGITS}

Places(p) ==
  {m \in 0..Min(p + 2 + Slack, MAX_PI_DIGITS + 1) :
      m <= MaxPrec + 2 + Slack \/ m >= p + 2 - EdgeWindow \/ m % Stride = 0}

InitUtility ==
  \E p \in UtilityPrecisions, e \in {0, 1} :
    \E m \in Places(p), t \in Tails :
      LET d == PiSig(m) \o t
      IN  /\ d # <<>>
          /\ d[1] # 0
          /\ value = [sgn |-> 1, exp |-> e, dig |-> d]
          /\ precision = p
          /\ pc = "computed"
          /\ calculated_str = <<>>
          /\ report = AccuracyReport
          /\ A = <<>>
          /\ j = 0
          /\ nines = 0
          /\ predigit = 0
          /\ pi = mpf_zero
          /\ multiplier = 0
          /\ ShellIdle

Next ==
  \/ SpigotNine
  \/ SpigotTen
  \/ SpigotDigit
  \/ SpigotReturn
  \/ FormatPi
  \/ ComparePiAccuracy

Spec == Init /\ [][Next]_vars

NextUtility == FormatPi \/ ComparePiAccuracy

SpecUtility == InitUtility /\ [][NextUtility]_vars

(***************************************************************************)
(* calculate_pi_spigot called with a precision beyond the range of the     *)
(* precision menu, by a caller whose mpf_set_default_prec lets an          *)
(* mpf_class hold every digit that is asked for, and two more.  LongFirst  *)
(* is the least precision whose outer loop meets a q of 10 behind a        *)
(* buffered 9 (at the outer step 362).                                     *)
(***************************************************************************)
LongFirst == 360

LongRange == 1

LongPrecisions == LongFirst..(LongFirst + LongRange)

InitSpigotLong ==
  /\ precision \in LongPrecisions
  /\ pc = "spigot"
  /\ A = [i \in 1..spigot_len(spigot_N(precision)) |-> 2]
  /\ j = 1
  /\ nines = 0
  /\ predigit = 0
  /\ pi = [i \in 1..(spigot_N(precision) + 3) |-> 0]
  /\ multiplier = 0
  /\ value = NoValue
  /\ calculated_str = <<>>
  /\ report = AccuracyReport
  /\ ShellIdle

SpecSpigotLong == InitSpigotLong /\ [][Next]_vars

(***************************************************************************)
(* The formatter and the comparator called with a precision beyond the     *)
(* reference table of MAX_PI_DIGITS decimals.                              *)
(***************************************************************************)
OverRange == 3

OverTablePrecisions == (MAX_PI_DIGITS + 1)..(MAX_PI_DIGITS + OverRange)

InitOverTable ==
  \E p \in OverTablePrecisions, e \in {0, 1} :
    \E m \in Places(p), t \in Tails :
      /\ PiSig(m) \o t # <<>>
      /\ (PiSig(m) \o t)[1] # 0
      /\ value = [sgn |-> 1, exp |-> e, dig |-> PiSig(m) \o t]
      /\ precision = p
      /\ pc = "computed"
      /\ calculated_str = <<>>
      /\ report = AccuracyReport
      /\ A = <<>>
      /\ j = 0
      /\ nines = 0
      /\ predigit = 0
      /\ pi = mpf_zero
      /\ multiplier = 0
      /\ ShellIdle

SpecOverTable == InitOverTable /\ [][NextUtility]_vars

(***************************************************************************)
(* compare_pi_accuracy called with a value that is zero or negative; the   *)
(* state is the one just before the call.                                  *)
(***************************************************************************)
NonPositiveValues ==
  {NoValue} \cup {[sgn |-> -1, exp |-> e, dig |-> PiSig(m)] : e \in {0, 1}, m \in 1..3}

InitNonPositive ==
  \E p \in 1..MaxPrec, v \in NonPositiveValues :
    /\ value = v
    /\ precision = p
    /\ pc = "formatted"
    /\ calculated_str = <<>>
    /\ report = AccuracyReport
    /\ A = <<>>
    /\ j = 0
    /\ nines = 0
    /\ predigit = 0
    /\ pi = mpf_zero
    /\ multiplier = 0
    /\ ShellIdle

SpecNonPositive == InitNonPositive /\ [][ComparePiAccuracy]_vars

(***************************************************************************)
(* compare_pi_accuracy on values of either kind: the positive values of    *)
(* InitUtility, which are formatted and then compared, and the             *)
(* non-positive values of InitNonPositive.                                 *)
(***************************************************************************)
InitReports == InitUtility \/ InitNonPositive

SpecReports == InitReports /\ [][NextUtility]_vars

(***************************************************************************)
(* input.cpp.  A button state is the set of the buttons that are held; a   *)
(* mask is a set of buttons too, 0xFFFFFFFF being all of them.             *)
(***************************************************************************)
PadButtons ==
  {"PAD_BUTTON_LEFT", "PAD_BUTTON_RIGHT", "PAD_BUTTON_A", "PAD_TRIGGER_L",
   "PAD_TRIGGER_R", "PAD_BUTTON_START"}

WpadButtons ==
  {"WPAD_BUTTON_LEFT", "WPAD_BUTTON_RIGHT", "WPAD_BUTTON_A", "WPAD_BUTTON_B",
   "WPAD_BUTTON_MINUS", "WPAD_BUTTON_PLUS", "WPAD_BUTTON_HOME"}

\* what PAD_ButtonsHeld(0) and WPAD_ButtonsHeld(0) give at one scan: here no
\* button, or one button of the Wii Remote, or A or Start of the GameCube
\* controller
HeldChoices ==
  {[gc |-> {}, wii |-> {}]}
    \cup {[gc |-> {b}, wii |-> {}] : b \in {"PAD_BUTTON_A", "PAD_BUTTON_START"}}
    \cup {[gc |-> {}, wii |-> {b}] : b \in WpadButtons}

\* poll_inputs, with h the buttons that the scan finds held
poll_inputs(h) ==
  /\ gc_last_state' = gc_state
  /\ wii_last_state' = wii_state
  /\ gc_state' = h.gc
  /\ wii_state' = h.wii
  /\ wpad_held' = h.wii

is_button_just_pressed(gc_button, wii_button) ==
  LET gc_just_pressed  == (gc_state \cap gc_button # {}) /\ (gc_last_state \cap gc_button = {})
      wii_just_pressed == (wii_state \cap wii_button # {}) /\ (wii_last_state \cap wii_button = {})
  IN  gc_just_pressed \/ wii_just_pressed

(***************************************************************************)
(* main, method_selection_menu and precision_selection_menu: one action    *)
(* for one turn of a menu's loop                                           *)
(***************************************************************************)
\* sizeof(pi_methods) / sizeof(pi_methods[0])
num_methods == 5

\* string pi_methods[]
pi_methods ==
  <<"Numerical Integration", "Machin's Formula", "Ramanujan's First Series",
    "Chudnovsky Algorithm", "Gauss-Legendre Algorithm">>

\* the console of method_selection_menu: the instructions, then the line that
\* every turn of the loop writes over
method_menu_screen(index) ==
  << <<"Select Pi Calculation Method:">>,
     <<"Use Left/Right on the D-pad to navigate.">>,
     <<"Press 'A' to confirm.">>,
     <<"Press 'Home' on Wii Remote or 'Start' on GameCube controller to exit.">>,
     <<"Currently Selected: ", pi_methods[index + 1], " ">> >>

\* the console of precision_selection_menu
precision_menu_screen(prec, step) ==
  << <<"Select Pi Precision (1-50 decimal places):">>,
     <<"Use Left/Right on the D-pad to adjust.">>,
     <<"Press 'L'/'R' or '-'/'+' to change the stepping size.">>,
     <<"Press 'A' to confirm.">>,
     <<"Current Precision: ", to_string(prec), " decimal places (Step Size: ",
       to_string(step), ") ">> >>

\* what main holds between two turns of its loop: the locals of
\* calculate_and_display_pi and of the menus at their initial values
LocalsReset ==
  /\ precision' = PRECISION_MAX
  /\ value' = NoValue
  /\ calculated_str' = <<>>
  /\ report' = AccuracyReport
  /\ method' = 0
  /\ selected_index' = 0
  /\ step_size' = 1
  /\ button_last' = NoButtonLast
  /\ time_taken' = 0
  /\ current_page' = 0
  /\ needs_redraw' = TRUE
  /\ screen' = SubSeq(method_menu_screen(0), 1, 4)

InitShell ==
  /\ pc = "method_menu"
  /\ precision = PRECISION_MAX
  /\ value = NoValue
  /\ calculated_str = <<>>
  /\ report = AccuracyReport
  /\ A = <<>>
  /\ j = 0
  /\ nines = 0
  /\ predigit = 0
  /\ pi = mpf_zero
  /\ multiplier = 0
  /\ gc_state = {}
  /\ gc_last_state = {}
  /\ wii_state = {}
  /\ wii_last_state = {}
  /\ wpad_held = {}
  /\ method = 0
  /\ selected_index = 0
  /\ step_size = 1
  /\ button_last = NoButtonLast
  /\ time_taken = 0
  /\ current_page = 0
  /\ needs_redraw = TRUE
  /\ screen = SubSeq(method_menu_screen(0), 1, 4)
  /\ locals = NoLocals

MethodSelectionMenu ==
  /\ pc = "method_menu"
  /\ \E h \in HeldChoices : poll_inputs(h)
  /\ LET button_right_down == is_button_just_pressed({"PAD_BUTTON_RIGHT"}, {"WPAD_BUTTON_RIGHT"})'
         button_left_down  == is_button_just_pressed({"PAD_BUTTON_LEFT"}, {"WPAD_BUTTON_LEFT"})'
         button_a_down     == is_button_just_pressed({"PAD_BUTTON_A"}, {"WPAD_BUTTON_A"})'
         after_right == IF button_right_down /\ ~button_last.right /\ selected_index < num_methods - 1
                        THEN selected_index + 1 ELSE selected_index
         after_left  == IF button_left_down /\ ~button_last.left /\ after_right > 0
                        THEN after_right - 1 ELSE after_right
     IN  IF button_a_down /\ ~button_last.a
         THEN \* return selected_index; main goes on to precision_selection_menu
              /\ method' = after_left
              /\ selected_index' = after_left
              /\ button_last' = NoButtonLast
              /\ screen' = SubSeq(precision_menu_screen(precision, step_size), 1, 4)
              /\ pc' = "precision_menu"
         ELSE /\ selected_index' = after_left
              /\ button_last' = [button_last EXCEPT !.right = button_right_down,
                                                    !.left = button_left_down,
                                                    !.a = button_a_down]
              /\ screen' = method_menu_screen(after_left)
              /\ pc' = IF is_button_just_pressed({"PAD_BUTTON_START"}, {"WPAD_BUTTON_HOME"})'
                       THEN "exit" ELSE "method_menu"
              /\ UNCHANGED method
  /\ UNCHANGED <<precision, value, calculated_str, report, spigot_vars, locals, step_size, page_vars>>

\* the Left button without the test of the lower limit
decrease_precision_unchecked(prec, step) == prec - step

\* if (precision - step_size >= 1) precision -= step_size
decrease_precision(prec, step) == IF prec - step >= 1 THEN prec - step ELSE prec

\* if (precision + step_size <= 50) precision += step_size
increase_precision(prec, step) == IF prec + step <= 50 THEN prec + step ELSE prec

PrecisionSelectionMenu ==
  /\ pc = "precision_menu"
  /\ \E h \in HeldChoices : poll_inputs(h)
  /\ LET button_left_down  == is_button_just_pressed({"PAD_BUTTON_LEFT"}, {"WPAD_BUTTON_LEFT"})'
         button_right_down == is_button_just_pressed({"PAD_BUTTON_RIGHT"}, {"WPAD_BUTTON_RIGHT"})'
         button_l_down     == is_button_just_pressed({"PAD_TRIGGER_L"}, {"WPAD_BUTTON_MINUS"})'
         button_r_down     == is_button_just_pressed({"PAD_TRIGGER_R"}, {"WPAD_BUTTON_PLUS"})'
         button_a_down     == is_button_just_pressed({"PAD_BUTTON_A"}, {"WPAD_BUTTON_A"})'
         step_l == IF button_l_down /\ ~button_last.l /\ step_size > 1
                   THEN step_size \div 10 ELSE step_size
         step_r == IF button_r_down /\ ~button_last.r /\ step_l < 10
                   THEN step_l * 10 ELSE step_l
         prec_l == IF button_left_down /\ ~button_last.left
                   THEN decrease_precision(precision, step_r) ELSE precision
         prec_r == IF button_right_down /\ ~button_last.right
                   THEN increase_precision(prec_l, step_r) ELSE prec_l
     IN  /\ precision' = prec_r
         /\ screen' = precision_menu_screen(prec_r, step_r)
         /\ IF button_a_down /\ ~button_last.a
            THEN \* return precision; main calls calculate_and_display_pi(method, precision)
                 /\ step_size' = 1
                 /\ button_last' = NoButtonLast
                 /\ pc' = "calculate"
            ELSE /\ step_size' = step_r
                 /\ button_last' = [l |-> button_l_down, r |-> button_r_down,
                                    left |-> button_left_down, right |-> button_right_down,
                                    a |-> button_a_down]
                 /\ pc' = "precision_menu"
  /\ UNCHANGED <<value, calculated_str, report, spigot_vars, locals, method, selected_index, page_vars>>

(***************************************************************************)
(* calculate_and_display_pi as main calls it                               *)
(***************************************************************************)
\* the line that names the method, for the cases 0 to 6 of the switch
calculating_message(m) ==
  << "Calculating Pi using Numerical Integration Method...",
     "Calculating Pi using Machin's Formula Method...",
     "Calculating Pi using Ramanujan's First Series...",
     "Calculating Pi using Chudnovsky's Algorithm...",
     "Calculating Pi using Gauss-Legendre Algorithm...",
     "Calculating Pi using Spigot Algorithm...",
     "Calculating Pi using Bailey-Borwein-Plouffe (BBP) formula..." >>[m + 1]

\* the values that the call of an algorithm may leave in pi: a positive number
\* that is pi on more digits than are shown, or on half of them only
algorithm_results(m, prec) ==
  {[sgn |-> 1, exp |-> 1, dig |-> PiSig(n)] : n \in {prec + 8, prec \div 2 + 1}}

\* the readings of gettimeofday
ClockReadings == {[tv_sec |-> 5, tv_usec |-> 999000], [tv_sec |-> 6, tv_usec |-> 500]}

\* double time_taken, here in microseconds (the code has it in milliseconds)
elapsed(start_time, end_time) ==
  (end_time.tv_sec - start_time.tv_sec) * 1000000 + (end_time.tv_usec - start_time.tv_usec)

\* operator<< of a positive time below 1000 milliseconds: its six significant
\* digits show all the microseconds, and no trailing zero is printed
milliseconds_str(us) ==
  LET frac == StripZeros(<<(us % 1000) \div 100, ((us % 1000) \div 10) % 10, us % 10>>)
  IN  IF frac = <<>> THEN <<to_string(us \div 1000)>>
      ELSE <<to_string(us \div 1000), ".">> \o [i \in 1..Len(frac) |-> Chr(frac[i])]

\* the line about the time with only a negative time taken as unknown
time_line_negative_only(taken) ==
  IF taken < 0 THEN <<"Time taken: unknown (possibly due to emulation)">>
  ELSE <<"Time taken: ">> \o milliseconds_str(taken) \o <<" millisecond(s)">>

\* the line about the time
time_line(taken) ==
  IF taken <= 0 THEN <<"Time taken: unknown (possibly due to emulation)">>
  ELSE <<"Time taken: ">> \o milliseconds_str(taken) \o <<" millisecond(s)">>

\* from the entry to the line 'Press any button to view results...'
Calculate ==
  /\ pc = "calculate"
  /\ IF method \in 0..6
     THEN \E start_time \in ClockReadings, end_time \in ClockReadings :
            \E v \in algorithm_results(method, precision) :
              /\ value' = v
              /\ time_taken' = elapsed(start_time, end_time)
              /\ screen' =
                   << <<"Precision level set to: ", to_string(precision), " decimal place(s)">>,
                      <<calculating_message(method)>>,
                      <<>>,
                      <<"Pi Calculation Complete!">>,
                      time_line(time_taken'),
                      <<>>,
                      <<"Press any button to view results...">> >>
              /\ pc' = "wait_results"
              /\ UNCHANGED <<precision, calculated_str, report, menu_vars,
                             current_page, needs_redraw>>
     ELSE \* "Invalid method selection.", and back to main
          /\ LocalsReset
          /\ pc' = "method_menu"
  /\ UNCHANGED <<spigot_vars, locals, input_vars>>

\* one turn of the loop that waits for any button
WaitForResults ==
  /\ pc = "wait_results"
  /\ \E h \in HeldChoices : poll_inputs(h)
  /\ IF is_button_just_pressed(PadButtons, WpadButtons)'
     THEN \* break; time_taken is not read again
          /\ time_taken' = 0
          /\ pc' = "computed"
     ELSE /\ time_taken' = time_taken
          /\ pc' = "wait_results"
  /\ UNCHANGED <<precision, value, calculated_str, report, spigot_vars, locals, menu_vars,
                 current_page, needs_redraw, screen>>

page_size == 1200

total_pages(pi_full_string) ==
  LET n == (Len(pi_full_string) + page_size - 1) \div page_size
  IN  IF n = 0 THEN 1 ELSE n

\* the body of a page: the digits of the page, in red from the mismatch on
page_body(pi_full_string, mismatch_index, page) ==
  LET start_pos == page * page_size
      raw       == substr(pi_full_string, start_pos, page_size)
      multi     == total_pages(pi_full_string) > 1
      full      == (IF multi /\ page > 0 THEN <<".", ".", ".">> ELSE <<>>)
                     \o raw
                     \o (IF multi /\ page < total_pages(pi_full_string) - 1
                         THEN <<".", ".", ".">> ELSE <<>>)
      page_mismatch_pos ==
        (mismatch_index - start_pos)
          + (IF multi /\ page > 0 /\ mismatch_index # -1 THEN 3 ELSE 0)
  IN  IF mismatch_index = -1 THEN full
      ELSE IF mismatch_index < start_pos THEN <<red>> \o full \o <<reset_color>>
      ELSE IF mismatch_index >= start_pos + Len(raw) THEN full
      ELSE substr(full, 0, page_mismatch_pos) \o <<red>>
             \o substr(full, page_mismatch_pos, Len(full)) \o <<reset_color>>

\* what if (needs_redraw) writes
results_screen(rep, pi_full_string, page) ==
  rep.report_lines
    \o << <<>>, <<"--- Full Result ---">>,
          page_body(pi_full_string, rep.mismatch_index, page) >>
    \o (IF total_pages(pi_full_string) > 1
        THEN << <<>>,
                <<"Page ", to_string(page + 1), " of ", to_string(total_pages(pi_full_string))>>,
                <<"Use D-Pad Left/Right to scroll.">> >>
        ELSE <<>>)
    \o << <<"Press A/B to return to menu. Press Home/Start to exit.">> >>

\* the end of a turn of the loop of the pages with the heading of the page
\* added to the report when the page is drawn
show_page_appending(page) ==
  /\ current_page' = page
  /\ needs_redraw' = FALSE
  /\ report' = IF needs_redraw \/ page # current_page
               THEN add_line(report, <<"--- Full Result ---">>)
               ELSE report
  /\ screen' = IF needs_redraw \/ page # current_page
               THEN results_screen(report, calculated_str, page)
               ELSE screen
  /\ pc' = "reported"
  /\ UNCHANGED <<precision, value, calculated_str, menu_vars, time_taken>>

\* the end of a turn of the loop of the pages that goes on: the page is drawn
\* when it has to be, through get_lines and get_mismatch_index only
show_page(page) ==
  /\ current_page' = page
  /\ needs_redraw' = FALSE
  /\ screen' = IF needs_redraw \/ page # current_page
               THEN results_screen(report, calculated_str, page)
               ELSE screen
  /\ pc' = "reported"
  /\ UNCHANGED <<precision, value, calculated_str, report, menu_vars, time_taken>>

\* one turn of the loop of the pages; WPAD_ButtonsDown gives the buttons that
\* are held at this scan and were not held at the scan before
ResultsPage ==
  /\ pc = "reported"
  /\ \E h \in HeldChoices :
       LET pressed     == h.wii \ wpad_held
           after_right == IF "WPAD_BUTTON_RIGHT" \in pressed
                             /\ current_page < total_pages(calculated_str) - 1
                          THEN current_page + 1 ELSE current_page
           after_left  == IF "WPAD_BUTTON_LEFT" \in pressed /\ after_right > 0
                          THEN after_right - 1 ELSE after_right
       IN  /\ wpad_held' = h.wii
           /\ IF pressed \cap {"WPAD_BUTTON_A", "WPAD_BUTTON_B", "WPAD_BUTTON_HOME"} # {}
              THEN \* break: the function returns and main calls method_selection_menu
                   /\ LocalsReset
                   /\ pc' = "method_menu"
              ELSE show_page(after_left)
  /\ UNCHANGED <<spigot_vars, locals, gc_state, gc_last_state, wii_state, wii_last_state>>

NextShell ==
  \/ MethodSelectionMenu
  \/ PrecisionSelectionMenu
  \/ Calculate
  \/ WaitForResults
  \/ FormatPi
  \/ ComparePiAccuracy
  \/ ResultsPage

SpecShell == InitShell /\ [][NextShell]_vars

(***************************************************************************)
(* The series algorithms (pi_calculation.cpp): Machin's formula,           *)
(* Ramanujan's first series, Chudnovsky's algorithm, the Gauss-Legendre    *)
(* algorithm and the BBP formula.  One action for the entry of a function, *)
(* one for one turn of its loop and one for its return; locals holds the   *)
(* function's local variables under their names.                           *)
(***************************************************************************)
\* mpf_class threshold("1e-50") of arctan
threshold == mpf_div(mpf_of_int(1), mpf_pow_ui(mpf_of_int(10), 50))

\* the local variables of arctan(x) at its loop; call and first belong to
\* calculate_pi_machin: which of its two calls this is, and the first one's result
arctan_entry(x, call, first) ==
  [fn |-> "arctan", result |-> mpf_0, term |-> x, x2 |-> mpf_mul(x, x), n |-> 1,
   threshold |-> threshold, call |-> call, first |-> first]

\* term > threshold || term < -threshold
arctan_continues(term, limit) ==
  mpf_cmp(term, limit) > 0 \/ mpf_cmp(term, mpf_neg(limit)) < 0

\* term * (-x2 * (n - 2) / n), for the n that has already been increased
arctan_next_term(term, x2, n) ==
  mpf_mul(term, mpf_div(mpf_mul(mpf_neg(x2), mpf_of_int(n - 2)), mpf_of_int(n)))

\* 16 * arctan(1/5) - 4 * arctan(1/239)
machin_value(arctan_5, arctan_239) ==
  mpf_sub(mpf_mul(mpf_of_int(16), arctan_5), mpf_mul(mpf_of_int(4), arctan_239))

RECURSIVE gmp_factorial(_)
gmp_factorial(n) ==
  IF n = 0 THEN mpf_of_int(1) ELSE mpf_mul(gmp_factorial(n - 1), mpf_of_int(n))

\* the least e with 2^e >= n: ceil(log2(n)) for n >= 1
RECURSIVE ceil_log2(_)
ceil_log2(n) == IF n <= 1 THEN 0 ELSE 1 + ceil_log2((n + 1) \div 2)

\* the remainder of the division in place of its quotient
ramanujan_iterations_remainder(prec) == (prec % 8) + 2

\* int iterations = (precision / 8) + 2
ramanujan_iterations(prec) == (prec \div 8) + 2

\* int iterations = (precision / 14) + 2
chudnovsky_iterations(prec) == (prec \div 14) + 2

\* int iterations = static_cast<int>(ceil(log2(precision))) + 2
gauss_legendre_iterations(prec) == ceil_log2(prec) + 2

\* precision / 1.2 rounded to the nearest int in place of the cast's truncation
bbp_iterations_rounded(prec) == ((prec * 5 + 3) \div 6) + 2

\* int iterations = static_cast<int>(precision / 1.2) + 2
bbp_iterations(prec) == ((prec * 5) \div 6) + 2

\* 2 * sqrt(mpf_class(2)) / 9801
ramanujan_factor ==
  mpf_div(mpf_mul(mpf_of_int(2), mpf_sqrt(mpf_of_int(2))), mpf_of_int(9801))

\* numerator / denominator of the term k of calculate_pi_ramanujan
ramanujan_term(k) ==
  LET numerator   == mpf_mul(gmp_factorial(4 * k), mpf_of_int(1103 + 26390 * k))
      denominator == mpf_mul(mpf_pow_ui(gmp_factorial(k), 4),
                             mpf_pow_ui(mpf_of_int(396), 4 * k))
  IN  mpf_div(numerator, denominator)

\* 426880 * sqrt(mpf_class(10005))
chudnovsky_C == mpf_mul(mpf_of_int(426880), mpf_sqrt(mpf_of_int(10005)))

INT_MAX == 2147483647

\* the int 13591409 + 545140134 * k as the mpf_class it is turned into: the
\* sum when it is an int, and when it is greater than INT_MAX (signed
\* overflow, undefined) either the sum wrapped around 2^32 or the sum itself
chudnovsky_linear(k) ==
  LET exact == mpf_add(mpf_of_int(13591409), mpf_mul(mpf_of_int(545140134), mpf_of_int(k)))
  IN  IF mpf_cmp(exact, mpf_of_int(INT_MAX)) <= 0 THEN {exact}
      ELSE {mpf_sub(exact, mpf_pow_ui(mpf_of_int(2), 32)), exact}

\* numerator / denominator of the term k of calculate_pi_chudnovsky
chudnovsky_term(k, linear) ==
  LET numerator         == mpf_mul(gmp_factorial(6 * k), linear)
      power_neg640320   == mpf_pow_ui(mpf_of_int(640320), 3 * k)
      factorial_k_cubed == mpf_mul(mpf_mul(gmp_factorial(k), gmp_factorial(k)),
                                   gmp_factorial(k))
      denominator       == mpf_mul(mpf_mul(gmp_factorial(3 * k), factorial_k_cubed),
                                   power_neg640320)
  IN  mpf_div(numerator, denominator)

\* the term k of calculate_pi_bbp divided by 16^k
bbp_term(k) ==
  LET term == mpf_sub(mpf_sub(mpf_sub(mpf_div(mpf_of_int(4), mpf_of_int(8 * k + 1)),
                                      mpf_div(mpf_of_int(2), mpf_of_int(8 * k + 4))),
                              mpf_div(mpf_of_int(1), mpf_of_int(8 * k + 5))),
                      mpf_div(mpf_of_int(1), mpf_of_int(8 * k + 6)))
      temp == mpf_pow_ui(mpf_of_int(16), k)
  IN  mpf_div(term, temp)

\* the algorithm returns to calculate_and_display_pi with the value v
series_return(v) ==
  /\ value' = mpf_decimal(v)
  /\ locals' = NoLocals
  /\ pc' = "computed"
  /\ UNCHANGED <<precision, calculated_str, report, spigot_vars, shell_vars>>

\* the algorithm goes on with the local variables l
series_step(at, l) ==
  /\ locals' = l
  /\ pc' = at
  /\ UNCHANGED <<precision, value, calculated_str, report, spigot_vars, shell_vars>>

\* case 1: calculate_pi_machin() calls arctan(mpf_class(1) / mpf_class(5))
MachinCall ==
  /\ pc = "algorithm"
  /\ method = 1
  /\ series_step("arctan", arctan_entry(mpf_div(mpf_of_int(1), mpf_of_int(5)), 1, mpf_0))

\* one turn of the loop of arctan
ArctanTerm ==
  /\ pc = "arctan"
  /\ arctan_continues(locals.term, locals.threshold)
  /\ series_step("arctan",
       [locals EXCEPT !.result = mpf_add(locals.result, locals.term),
                      !.n = locals.n + 2,
                      !.term = arctan_next_term(locals.term, locals.x2, locals.n + 2)])

\* arctan returns: the first call is followed by arctan(mpf_class(1) / mpf_class(239)),
\* the second by the return of calculate_pi_machin
ArctanReturn ==
  /\ pc = "arctan"
  /\ ~arctan_continues(locals.term, locals.threshold)
  /\ IF locals.call = 1
     THEN series_step("arctan",
            arctan_entry(mpf_div(mpf_of_int(1), mpf_of_int(239)), 2, locals.result))
     ELSE series_return(machin_value(locals.first, locals.result))

\* case 2: calculate_pi_ramanujan(precision) up to its loop
RamanujanCall ==
  /\ pc = "algorithm"
  /\ method = 2
  /\ series_step("ramanujan",
       [fn |-> "calculate_pi_ramanujan", sum |-> mpf_0, factor |-> ramanujan_factor,
        iterations |-> ramanujan_iterations(precision), k |-> 0])

RamanujanTerm ==
  /\ pc = "ramanujan"
  /\ locals.k < locals.iterations
  /\ series_step("ramanujan",
       [locals EXCEPT !.sum = mpf_add(locals.sum, ramanujan_term(locals.k)),
                      !.k = locals.k + 1])

\* return 1 / (factor * sum)
RamanujanReturn ==
  /\ pc = "ramanujan"
  /\ ~(locals.k < locals.iterations)
  /\ series_return(mpf_div(mpf_of_int(1), mpf_mul(locals.factor, locals.sum)))

\* case 3: calculate_pi_chudnovsky(precision) up to its loop
ChudnovskyCall ==
  /\ pc = "algorithm"
  /\ method = 3
  /\ series_step("chudnovsky",
       [fn |-> "calculate_pi_chudnovsky", C |-> chudnovsky_C, sum |-> mpf_0,
        iterations |-> chudnovsky_iterations(precision), k |-> 0])

ChudnovskyTerm ==
  /\ pc = "chudnovsky"
  /\ locals.k < locals.iterations
  /\ \E linear \in chudnovsky_linear(locals.k) :
       series_step("chudnovsky",
         [locals EXCEPT !.sum = IF locals.k % 2 = 0
                                THEN mpf_add(locals.sum, chudnovsky_term(locals.k, linear))
                                ELSE mpf_sub(locals.sum, chudnovsky_term(locals.k, linear)),
                        !.k = locals.k + 1])

\* return C / sum
ChudnovskyReturn ==
  /\ pc = "chudnovsky"
  /\ ~(locals.k < locals.iterations)
  /\ series_return(mpf_div(locals.C, locals.sum))

\* case 4: calculate_pi_gauss_legendre(precision) up to its loop
GaussLegendreCall ==
  /\ pc = "algorithm"
  /\ method = 4
  /\ series_step("gauss_legendre",
       [fn |-> "calculate_pi_gauss_legendre",
        a |-> mpf_of_int(1),
        b |-> mpf_div(mpf_of_int(1), mpf_sqrt(mpf_of_int(2))),
        t |-> mpf_div(mpf_of_int(1), mpf_of_int(4)),
        p |-> mpf_of_int(1),
        iterations |-> gauss_legendre_iterations(precision), i |-> 0])

GaussLegendreStep ==
  /\ pc = "gauss_legendre"
  /\ locals.i < locals.iterations
  /\ LET a_next == mpf_div(mpf_add(locals.a, locals.b), mpf_of_int(2))
         b_next == mpf_sqrt(mpf_mul(locals.a, locals.b))
         t_next == mpf_sub(locals.t,
                           mpf_mul(mpf_mul(locals.p, mpf_sub(locals.a, a_next)),
                                   mpf_sub(locals.a, a_next)))
     IN  series_step("gauss_legendre",
           [locals EXCEPT !.a = a_next, !.b = b_next, !.t = t_next,
                          !.p = mpf_mul(locals.p, mpf_of_int(2)),
                          !.i = locals.i + 1])

\* return (a + b) * (a + b) / (4 * t)
GaussLegendreReturn ==
  /\ pc = "gauss_legendre"
  /\ ~(locals.i < locals.iterations)
  /\ series_return(mpf_div(mpf_mul(mpf_add(locals.a, locals.b), mpf_add(locals.a, locals.b)),
                           mpf_mul(mpf_of_int(4), locals.t)))

\* case 6: calculate_pi_bbp(precision) up to its loop
BbpCall ==
  /\ pc = "algorithm"
  /\ method = 6
  /\ series_step("bbp",
       [fn |-> "calculate_pi_bbp", pi |-> mpf_0,
        iterations |-> bbp_iterations(precision), k |-> 0])

BbpTerm ==
  /\ pc = "bbp"
  /\ locals.k < locals.iterations
  /\ series_step("bbp",
       [locals EXCEPT !.pi = mpf_add(locals.pi, bbp_term(locals.k)),
                      !.k = locals.k + 1])

\* return pi
BbpReturn ==
  /\ pc = "bbp"
  /\ ~(locals.k < locals.iterations)
  /\ series_return(locals.pi)

\* the methods of calculate_and_display_pi that are series algorithms
SeriesMethods == {1, 2, 3, 4, 6}

SeriesPrecisions == PRECISION_MIN..PRECISION_MAX

\* calculate_and_display_pi(method, precision) at its switch
InitSeries ==
  /\ pc = "algorithm"
  /\ precision \in SeriesPrecisions
  /\ method \in SeriesMethods
  /\ value = NoValue
  /\ calculated_str = <<>>
  /\ report = AccuracyReport
  /\ A = <<>>
  /\ j = 0
  /\ nines = 0
  /\ predigit = 0
  /\ pi = mpf_zero
  /\ multiplier = 0
  /\ gc_state = {}
  /\ gc_last_state = {}
  /\ wii_state = {}
  /\ wii_last_state = {}
  /\ wpad_held = {}
  /\ selected_index = 0
  /\ step_size = 1
  /\ button_last = NoButtonLast
  /\ time_taken = 0
  /\ current_page = 0
  /\ needs_redraw = TRUE
  /\ screen = <<>>
  /\ locals = NoLocals

NextSeries ==
  \/ MachinCall
  \/ ArctanTerm
  \/ ArctanReturn
  \/ RamanujanCall
  \/ RamanujanTerm
  \/ RamanujanReturn
  \/ ChudnovskyCall
  \/ ChudnovskyTerm
  \/ ChudnovskyReturn
  \/ GaussLegendreCall
  \/ GaussLegendreStep
  \/ GaussLegendreReturn
  \/ BbpCall
  \/ BbpTerm
  \/ BbpReturn
  \/ FormatPi
  \/ ComparePiAccuracy

SpecSeries == InitSeries /\ [][NextSeries]_vars

(***************************************************************************)
(* The precision of the mpf_class numbers (main.cpp, GMP)                  *)
(***************************************************************************)
\* mpf_set_default_prec(167), once, before the loop of main
default_prec == 167

\* the sizes of a limb of the builds of GMP
LimbBits == {32, 64}

\* __GMPF_BITS_TO_PREC: the limbs for a precision of so many bits
mpf_bits_to_prec(bits, limb) ==
  ((IF bits < 53 THEN 53 ELSE bits) + 2 * limb - 1) \div limb

\* the precision in effect taken to be the number of bits that was asked for
mpf_get_default_prec_as_asked(limb) == default_prec

\* mpf_get_default_prec: the bits that are in effect after mpf_set_default_prec
mpf_get_default_prec(limb) == mpf_bits_to_prec(default_prec, limb) * limb - limb

\* the least number of bits b with 2^b >= 10^d, that is d * log2(10) rounded up
\* (log2(10) = 3.3219280...; the approximation is exact for d below 70)
bits_for_digits(d) == (d * 3321929 + 999999) \div 1000000

(***************************************************************************)
(* Helpers of the properties                                               *)
(***************************************************************************)
\* the reference, cut to p decimals
Reference(p) == SubSeq(pi_digits, 1, p + 2)

\* v lies in [1, 10) and its first n decimals are those of pi
AgreesWithPi(v, n) ==
  /\ v.sgn = 1
  /\ v.exp = 1
  /\ Len(v.dig) >= n + 1
  /\ \A i \in 1..(n + 1) : v.dig[i] = PiSig(n + 1)[i]

\* the number of leading characters on which a and b agree
AgreeLen(a, b) ==
  LET n == Min(Len(a), Len(b))
      D == {i \in 1..n : a[i] # b[i]}
  IN  IF D = {} THEN n ELSE (CHOOSE i \in D : \A i2 \in D : i <= i2) - 1

\* the display column (0-based) of the caret in an arrow line: the escapes have no width
CaretColumn(line) ==
  LET at == CHOOSE i \in 1..Len(line) : line[i] = "^"
  IN  Cardinality({i \in 1..(at - 1) : line[i] \notin {red, reset_color}})

\* a line without its 15-character label
Shown(line) == SubSeq(line, Len(actual_pi_label) + 1, Len(line))

(***************************************************************************)
(* C1: for the precisions 1, 5, 14, 20 and 50 the value of                 *)
(* calculate_pi_spigot, formatted by format_pi, is "3." and the first      *)
(* `precision` reference digits ("3.1" for precision 1), and               *)
(* compare_pi_accuracy leaves the mismatch index at -1.                    *)
(***************************************************************************)
C1_SpigotMatchesReference ==
  (pc \in {"formatted", "reported"} /\ precision \in {1, 5, 14, 20, 50}) =>
    /\ calculated_str = Reference(precision)
    /\ precision = 1 => calculated_str = <<"3", ".", "1">>
    /\ pc = "reported" => report.mismatch_index = -1

C1_Witness ==
  /\ pc = "reported"
  /\ precision = 50
  /\ j = spigot_N(precision) + 1
  /\ report.mismatch_index = -1

(***************************************************************************)
(* C2: for every precision p in 1..50 whose decimals 1..p + 1 of pi hold   *)
(* a 9 (a run may still be pending when the outer loop ends), the Spigot   *)
(* value formatted to p digits is the reference.                           *)
(***************************************************************************)
C2_NineRunsComeOutRight ==
  (/\ pc \in {"formatted", "reported"}
   /\ \E i \in 1..(precision + 1) : PiDecimals[i] = 9)
  => calculated_str = Reference(precision)

(***************************************************************************)
(* C3: for a value that agrees with pi to at least p + 2 decimals and      *)
(* p in 1..50, format_pi returns the first p + 2 characters of the         *)
(* reference: the guard digit is cut off and never rounds a kept digit up. *)
(***************************************************************************)
C3_GuardDigitIsTruncated ==
  (/\ pc = "formatted"
   /\ precision \in PRECISION_MIN..PRECISION_MAX
   /\ AgreesWithPi(value, precision + 2))
  => calculated_str = Reference(precision)

(***************************************************************************)
(* C4: for every positive value and every precision p >= 1 the string of   *)
(* format_pi is exactly p + 2 characters long.                             *)
(***************************************************************************)
C4_ExactLength ==
  (pc = "formatted" /\ value.sgn = 1) => Len(calculated_str) = precision + 2

(***************************************************************************)
(* C5: for one value and p1 < p2, format_pi(value, p1) is the first        *)
(* p1 + 2 characters of format_pi(value, p2).                              *)
(***************************************************************************)
C5_PrefixConsistent ==
  pc = "formatted" =>
    \A p1 \in 1..(precision - 1) :
      format_pi(value, p1) = substr(calculated_str, 0, p1 + 2)

(***************************************************************************)
(* C6: when the calculated string and the reference agree on "3." and on   *)
(* the first k decimals and differ at decimal k + 1 (or the calculated     *)
(* string ends there), the report's mismatch_index is k + 1.               *)
(***************************************************************************)
C6_MismatchIndexIsDecimalNumber ==
  LET n == AgreeLen(calculated_str, Reference(precision))
  IN  (pc = "reported" /\ n >= 2 /\ n < precision + 2)
      => report.mismatch_index = (n - 2) + 1

(***************************************************************************)
(* C6, amended: in that case mismatch_index is k + 2, the 0-based index of *)
(* the character in the whole string with its "3." prefix, and the last    *)
(* line of the report names k + 1 digit(s) after the decimal.              *)
(***************************************************************************)
C6_MismatchIndexIsCharacterIndex ==
  LET n == AgreeLen(calculated_str, Reference(precision))
  IN  (pc = "reported" /\ n >= 2 /\ n < precision + 2)
      => /\ report.mismatch_index = (n - 2) + 2
         /\ report.report_lines[Len(report.report_lines)] =
              <<"First mismatch at: ", ToString((n - 2) + 1), " digit(s) after the decimal">>

C6_Witness ==
  /\ pc = "reported"
  /\ precision = PRECISION_MAX
  /\ AgreeLen(calculated_str, Reference(precision)) = 32
  /\ report.mismatch_index = 32

(***************************************************************************)
(* C7: a mismatch index m that compare_pi_accuracy sets is the least       *)
(* character index at which the calculated string has ended or differs     *)
(* from the reference cut to precision + 2 characters, and                 *)
(* 0 <= m < precision + 2, for precisions up to 1000.                      *)
(***************************************************************************)
C7_LeastInRangeIndex ==
  (pc = "reported" /\ report.mismatch_index # -1) =>
    LET m == report.mismatch_index
        r == Reference(precision)
    IN  /\ 0 <= m
        /\ m < precision + 2
        /\ m >= Len(calculated_str) \/ calculated_str[m + 1] # r[m + 1]
        /\ \A i \in 0..(m - 1) :
              i < Len(calculated_str) /\ calculated_str[i + 1] = r[i + 1]

C7_Witness ==
  /\ pc = "reported"
  /\ precision = MAX_PI_DIGITS
  /\ report.mismatch_index = MAX_PI_DIGITS + 1
  /\ Len(calculated_str) = MAX_PI_DIGITS + 1

(***************************************************************************)
(* C8: when the calculated string equals the reference on all              *)
(* precision + 2 characters, mismatch_index stays -1, the last line says   *)
(* that all `precision` digits are correct, and both previews are the      *)
(* strings themselves, or, when these exceed the display width, their      *)
(* start cut to that width and ended by "...".                             *)
(***************************************************************************)
PreviewOf(line, label, s) ==
  IF Len(s) > max_line_width - Len(label)
  THEN /\ Len(line) = max_line_width
       /\ SubSeq(line, 1, Len(label)) = label
       /\ SubSeq(line, max_line_width - 2, max_line_width) = <<".", ".", ".">>
       /\ SubSeq(line, Len(label) + 1, max_line_width - 3)
            = SubSeq(s, 1, max_line_width - Len(label) - 3)
  ELSE line = label \o s

C8_SuccessReport ==
  (pc = "reported" /\ calculated_str = Reference(precision)) =>
    /\ report.mismatch_index = -1
    /\ Len(report.report_lines) = 3
    /\ PreviewOf(report.report_lines[1], actual_pi_label, Reference(precision))
    /\ PreviewOf(report.report_lines[2], calculated_pi_label, calculated_str)
    /\ report.report_lines[3] =
         <<"All ", ToString(precision), " digit(s) after the decimal are correct!">>

C8_Witness ==
  /\ pc = "reported"
  /\ precision = MAX_PI_DIGITS
  /\ calculated_str = Reference(precision)
  /\ Len(report.report_lines[1]) = max_line_width

(***************************************************************************)
(* C9: in every mismatch report the character at the mismatch index is     *)
(* part of the displayed 'Actual Pi' text and the caret stands in the      *)
(* display column of that character: the caret column holds the reference  *)
(* character of the mismatch index, the two displayed texts agree on every *)
(* column before it and differ (or the calculated text has ended) there.   *)
(***************************************************************************)
C9_CaretUnderMismatch ==
  (pc = "reported" /\ report.mismatch_index # -1) =>
    LET a   == Shown(report.report_lines[1])
        c   == Shown(report.report_lines[2])
        col == CaretColumn(report.report_lines[3]) - Len(actual_pi_label)
    IN  /\ col >= 0
        /\ col < Len(a)
        /\ a[col + 1] = Reference(precision)[report.mismatch_index + 1]
        /\ col >= Len(c) \/ c[col + 1] # a[col + 1]
        /\ \A i \in 1..col : i <= Len(c) /\ a[i] = c[i]

C9_Witness ==
  /\ pc = "reported"
  /\ precision = MAX_PI_DIGITS
  /\ report.mismatch_index \in (5 * Stride + 1)..(5 * Stride + 4)
  /\ CaretColumn(report.report_lines[3])
       = Len(actual_pi_label) + prefix_len + Len(ellipsis) + context_len \div 2

(***************************************************************************)
(* C10: the comparison starts just after the "3." prefix, so a reported    *)
(* mismatch index never designates a character of "3." and the line        *)
(* 'First mismatch at: N digit(s) after the decimal' has N >= 1.           *)
(***************************************************************************)
C10_MismatchNeverInPrefix ==
  (pc = "reported" /\ report.mismatch_index # -1) =>
    /\ report.mismatch_index >= 2
    /\ \E n \in 1..precision :
         report.report_lines[4] =
           <<"First mismatch at: ", ToString(n), " digit(s) after the decimal">>


(***************************************************************************)
(* C11: compare_pi_accuracy never says 'All N digit(s) after the decimal   *)
(* are correct!' for an N greater than the number of reference decimals    *)
(* that it compared, also for a precision beyond the reference table.      *)
(***************************************************************************)
C11_NoClaimBeyondReference ==
  (/\ pc = "reported"
   /\ report.report_lines[Len(report.report_lines)] =
        <<"All ", ToString(precision), " digit(s) after the decimal are correct!">>)
  => precision <= Len(actual_pi_str(precision)) - 2

(***************************************************************************)
(* C12: under every sequence of button inputs precision_selection_menu     *)
(* keeps 1 <= precision <= 50 and step_size in {1, 10}, and every call of  *)
(* calculate_and_display_pi by main, with all that it calls, has a         *)
(* precision in 1..50.                                                     *)
(***************************************************************************)
C12_PrecisionStaysInRange ==
  /\ pc = "precision_menu" => (precision \in 1..50 /\ step_size \in {1, 10})
  /\ pc \in {"calculate", "wait_results", "computed", "formatted", "reported"}
       => (precision >= 1 /\ precision <= 50 /\ precision <= MAX_PI_DIGITS)

C12_Witness ==
  /\ pc = "calculate"
  /\ precision = 1
  /\ method = num_methods - 1

(***************************************************************************)
(* C13: for Machin, Ramanujan, Chudnovsky, Gauss-Legendre and BBP and the  *)
(* precisions 1, 5, 14, 20 and 50, compare_pi_accuracy reports no mismatch *)
(* on the computed value, and Machin at 14 is formatted as                 *)
(* "3.14159265358979".                                                     *)
(***************************************************************************)
C13_SeriesAccurate ==
  (pc = "reported" /\ method \in SeriesMethods /\ precision \in {1, 5, 14, 20, 50})
    => /\ report.mismatch_index = -1
       /\ (method = 1 /\ precision = 14)
            => calculated_str = <<"3", ".", "1", "4", "1", "5", "9", "2", "6", "5",
                                  "3", "5", "8", "9", "7", "9">>

(***************************************************************************)
(* C16: the threshold at which arctan cuts its series off scales with the  *)
(* requested precision, a larger precision giving a smaller threshold.     *)
(* arctan has no precision parameter, so the threshold of a call with a    *)
(* smaller precision is the value of the definition threshold; whenever    *)
(* arctan runs for a precision above the least one, its own threshold is   *)
(* smaller than that.                                                      *)
(***************************************************************************)
C16_ThresholdScales ==
  (pc = "arctan" /\ precision > PRECISION_MIN)
    => mpf_cmp(locals.threshold, threshold) < 0

\* the positions of the loops of the four algorithms that count their iterations
SeriesLoops == {"ramanujan", "chudnovsky", "gauss_legendre", "bbp"}

\* the loop index of the algorithm at its loop: i in calculate_pi_gauss_legendre, k elsewhere
LoopIndex(l) == IF l.fn = "calculate_pi_gauss_legendre" THEN l.i ELSE l.k

\* n is the documented number of iterations of the algorithm for the precision p:
\* floor(p / 8) + 2, floor(p / 14) + 2, ceil(log2(p)) + 2, floor(p / 1.2) + 2
Documented(loop, p, n) ==
  CASE loop = "ramanujan"      -> 8 * (n - 2) <= p /\ p < 8 * (n - 1)
    [] loop = "chudnovsky"     -> 14 * (n - 2) <= p /\ p < 14 * (n - 1)
    [] loop = "gauss_legendre" -> n >= 2 /\ 2^(n - 2) >= p /\ (n = 2 \/ 2^(n - 3) < p)
    [] loop = "bbp"            -> 6 * (n - 2) <= 5 * p /\ 5 * p < 6 * (n - 1)

(***************************************************************************)
(* C17: for every precision in 1..50 Ramanujan, Chudnovsky, Gauss-Legendre *)
(* and BBP execute the documented number of iterations: the loop is        *)
(* entered with the index 0 and the documented count, every turn raises    *)
(* the index by one from a value of at most iterations - 1, and the        *)
(* function returns when the index is the documented count.                *)
(***************************************************************************)
C17_IterationCounts ==
  [][\A loop \in SeriesLoops :
       /\ (pc = "algorithm" /\ pc' = loop)
            => /\ precision \in 1..50
               /\ LoopIndex(locals') = 0
               /\ Documented(loop, precision, locals'.iterations)
       /\ (pc = loop /\ pc' = loop)
            => /\ LoopIndex(locals) \in 0..(locals.iterations - 1)
               /\ LoopIndex(locals') = LoopIndex(locals) + 1
               /\ locals'.iterations = locals.iterations
               /\ precision' = precision
       /\ (pc = loop /\ pc' = "computed")
            => /\ LoopIndex(locals) = locals.iterations
               /\ Documented(loop, precision, LoopIndex(locals))]_vars

\* BBP at precision 50 after its 43rd and last term, k having run from 0 to 42
C17_Witness ==
  /\ pc = "bbp"
  /\ precision = 50
  /\ locals.k = 43
  /\ locals.iterations = 43

\* the precisions over which the iteration counts are compared
CountRange == 128

\* the iteration count that the algorithm of the loop computes from a precision
IterationsOf(loop, prec) ==
  CASE loop = "ramanujan"      -> ramanujan_iterations(prec)
    [] loop = "chudnovsky"     -> chudnovsky_iterations(prec)
    [] loop = "gauss_legendre" -> gauss_legendre_iterations(prec)
    [] loop = "bbp"            -> bbp_iterations(prec)

(***************************************************************************)
(* C18: the iteration count of Ramanujan, Chudnovsky, Gauss-Legendre and   *)
(* BBP is non-decreasing in the precision: the count that a running        *)
(* algorithm has computed is at least the count of every smaller precision *)
(* and at most the count of every greater one, and from one precision to   *)
(* the next the count never falls.                                         *)
(***************************************************************************)
C18_IterationsMonotone ==
  \A loop \in SeriesLoops :
    pc = loop =>
      /\ locals.iterations = IterationsOf(loop, precision)
      /\ \A p1 \in 1..precision : IterationsOf(loop, p1) <= locals.iterations
      /\ \A p2 \in precision..CountRange : locals.iterations <= IterationsOf(loop, p2)
      /\ \A p1 \in 1..CountRange : IterationsOf(loop, p1) <= IterationsOf(loop, p1 + 1)

\* Gauss-Legendre at precision 33, the first precision with 8 iterations
C18_Witness ==
  /\ pc = "gauss_legendre"
  /\ precision = 33
  /\ locals.iterations = 8
  /\ gauss_legendre_iterations(precision - 1) = 7

\* a fragment of a line that is a character and no colour escape
IsText(c) == c \notin {red, reset_color}

\* the characters of a decimal number
NumberChars == {Chr(d) : d \in 0..9} \cup {"."}

\* the line is "Time taken: ", a number and " millisecond(s)"
IsTimeInMilliseconds(line) ==
  /\ Len(line) >= 3
  /\ line[1] = "Time taken: "
  /\ line[Len(line)] = " millisecond(s)"
  /\ \A i \in 2..(Len(line) - 1) : line[i] \in NumberChars

(***************************************************************************)
(* C19: calculate_and_display_pi takes the elapsed time as the difference  *)
(* of the clock reading after the algorithm and the one before it; a       *)
(* difference of zero or less is printed as unknown and a positive one as  *)
(* a number of milliseconds; and in either case the function goes on to    *)
(* the wait for a button, to format_pi, to compare_pi_accuracy and to the  *)
(* result page, which the first turn of the page loop draws.               *)
(***************************************************************************)
C19_TimeUnknownAndResultsShown ==
  [][/\ (pc = "calculate" /\ method \in 0..6)
          => /\ pc' = "wait_results"
             /\ \E start_time \in ClockReadings, end_time \in ClockReadings :
                  time_taken' = (end_time.tv_sec - start_time.tv_sec) * 1000000
                                  + (end_time.tv_usec - start_time.tv_usec)
             /\ IF time_taken' <= 0
                THEN screen'[5] = <<"Time taken: unknown (possibly due to emulation)">>
                ELSE IsTimeInMilliseconds(screen'[5])
             /\ screen'[7] = <<"Press any button to view results...">>
     /\ pc = "wait_results" => pc' \in {"wait_results", "computed"}
     /\ pc = "computed" => pc' = "formatted"
     /\ pc = "formatted" => pc' = "reported"
     /\ (pc = "reported" /\ needs_redraw /\ pc' = "reported")
          => /\ Len(screen') >= Len(report.report_lines) + 4
             /\ SubSeq(screen', 1, Len(report.report_lines)) = report.report_lines
             /\ screen'[Len(report.report_lines) + 2] = <<"--- Full Result ---">>
             /\ SelectSeq(screen'[Len(report.report_lines) + 3], IsText) = calculated_str]_vars

\* the second clock reading lies before the first one, and the time is shown as unknown
C19_Witness ==
  /\ pc = "wait_results"
  /\ time_taken < 0
  /\ screen[5] = <<"Time taken: unknown (possibly due to emulation)">>
  /\ screen[7] = <<"Press any button to view results...">>

(***************************************************************************)
(* C14: for a value <= 0 compare_pi_accuracy returns a report of exactly   *)
(* one line, the 'Invalid input' line, and the mismatch index keeps its    *)
(* initial value -1: nothing was formatted or compared.                    *)
(***************************************************************************)
C14_InvalidInputReport ==
  (pc = "reported" /\ value.sgn <= 0) =>
    /\ report.report_lines =
         << <<"Invalid input: Pi cannot be less than or equal to zero.">> >>
    /\ report.mismatch_index = AccuracyReport.mismatch_index
    /\ report.mismatch_index = -1

C14_Witness ==
  /\ pc = "reported"
  /\ value.sgn = -1
  /\ precision = PRECISION_MAX
  /\ Len(report.report_lines) = 1

(***************************************************************************)
(* C15: whenever an algorithm runs for a precision p of the shell, the     *)
(* working precision is sized from p, to p digits and at least one guard   *)
(* digit, and the precision in effect is at least (p + 1) * log2(10) bits. *)
(***************************************************************************)
C15_PrecisionSizedFromDigits ==
  pc = "calculate" =>
    /\ \E guard_digits \in 1..PRECISION_MAX :
         default_prec = bits_for_digits(precision + guard_digits)
    /\ \A limb \in LimbBits : mpf_get_default_prec(limb) >= bits_for_digits(precision + 1)

(***************************************************************************)
(* C15, amended: the working precision is asked for once, 167 bits for     *)
(* every p, which is the size of 50 digits without a guard digit; the      *)
(* precision that GMP puts in effect for it, 192 bits, is at least         *)
(* (p + 1) * log2(10) bits whenever an algorithm runs for a p in 1..50.    *)
(***************************************************************************)
C15_PrecisionInEffectSuffices ==
  pc = "calculate" =>
    /\ default_prec = bits_for_digits(PRECISION_MAX)
    /\ \A limb \in LimbBits :
         /\ mpf_get_default_prec(limb) = 192
         /\ mpf_get_default_prec(limb) >= bits_for_digits(precision + 1)

C15_Witness ==
  /\ pc = "calculate"
  /\ precision = PRECISION_MAX
  /\ default_prec < bits_for_digits(precision + 1)
  /\ \A limb \in LimbBits : mpf_get_default_prec(limb) >= bits_for_digits(precision + 1)
(***************************************************************************)
(* C20: once compare_pi_accuracy has returned, the report's lines and its  *)
(* mismatch index are not modified as long as calculate_and_display_pi     *)
(* shows the pages, whatever buttons are pressed; and the call of          *)
(* compare_pi_accuracy makes the report from its two arguments and leaves  *)
(* the statics of input.cpp and every other variable as they are.          *)
(***************************************************************************)
C20_ReportImmutable ==
  [][/\ (pc = "reported" /\ pc' = "reported")
          => /\ report'.report_lines = report.report_lines
             /\ report'.mismatch_index = report.mismatch_index
     /\ (pc = "formatted" /\ pc' = "reported")
          => /\ report' = compare_pi_accuracy(value, precision)
             /\ UNCHANGED <<precision, value, calculated_str, spigot_vars, locals,
                            input_vars, menu_vars, page_vars, screen>>]_vars

\* a mismatch report on the screen after a press of Right has been handled
C20_Witness ==
  /\ pc = "reported"
  /\ ~needs_redraw
  /\ wpad_held = {"WPAD_BUTTON_RIGHT"}
  /\ report.mismatch_index > 0
  /\ SubSeq(screen, 1, Len(report.report_lines)) = report.report_lines

(***************************************************************************)
(* C21: on the results page a new press of A or B leads back to the method *)
(* menu, and a new press of Home leads to exit_WPCPP and not to the menu.  *)
(***************************************************************************)
C21_HomeExitsFromResults ==
  [][pc = "reported"
       => /\ (wpad_held' \ wpad_held) \cap {"WPAD_BUTTON_A", "WPAD_BUTTON_B"} # {}
               => pc' = "method_menu"
          /\ "WPAD_BUTTON_HOME" \in (wpad_held' \ wpad_held)
               => pc' = "exit"]_vars

(***************************************************************************)
(* C22: the value that calculate_pi_spigot returns is pi itself: it is     *)
(* positive with 3 <= value < 4, a units digit 3 followed by the decimals. *)
(***************************************************************************)
C22_SpigotReturnsPi ==
  (pc = "computed" /\ precision \in 1..50)
    => /\ value.sgn = 1
       /\ value.exp = 1
       /\ value.dig[1] = 3

\* the masks that is_button_just_pressed is asked about: the any-button mask
\* 0xFFFFFFFF on both controllers, and each single button of one controller
ButtonMasks ==
  {[gc |-> PadButtons, wii |-> WpadButtons]}
    \cup {[gc |-> {b}, wii |-> {}] : b \in PadButtons}
    \cup {[gc |-> {}, wii |-> {b}] : b \in WpadButtons}

(***************************************************************************)
(* C23: for every mask, the any-button mask included,                      *)
(* is_button_just_pressed is true exactly when some button of the mask was *)
(* not held at the poll_inputs before the last one and is held at the last *)
(* one.                                                                    *)
(***************************************************************************)
C23_JustPressedIsATransition ==
  \A mask \in ButtonMasks :
    is_button_just_pressed(mask.gc, mask.wii)
      <=> \/ \E b \in mask.gc : b \in gc_state /\ b \notin gc_last_state
          \/ \E b \in mask.wii : b \in wii_state /\ b \notin wii_last_state

(***************************************************************************)
(* C24: in the success report and in the three layouts of a mismatch       *)
(* report the 'Actual Pi:' line and the 'Calculated Pi:' line are at most  *)
(* 60 characters wide: the label of 15 characters, then at most 45         *)
(* characters of digits, prefix and ellipsis, and no colour escape.        *)
(***************************************************************************)
C24_PreviewLinesFitWidth ==
  (pc = "reported" /\ value.sgn > 0) =>
    /\ Len(report.report_lines) >= 3
    /\ SubSeq(report.report_lines[1], 1, 15) = actual_pi_label
    /\ SubSeq(report.report_lines[2], 1, 15) = calculated_pi_label
    /\ \A n \in {1, 2} :
         /\ Len(report.report_lines[n]) <= 60
         /\ Len(Shown(report.report_lines[n])) <= 45
         /\ \A i \in 1..Len(report.report_lines[n]) :
              report.report_lines[n][i] \notin {red, reset_color}

\* the third layout at the greatest precision: prefix, ellipsis and a context
\* around a mismatch far to the right fill the 60 characters
C24_Witness ==
  /\ pc = "reported"
  /\ precision = MAX_PI_DIGITS
  /\ report.mismatch_index > MAX_PI_DIGITS - EdgeWindow
  /\ Len(report.report_lines[1]) = 60
  /\ SubSeq(Shown(report.report_lines[1]), prefix_len + 1, prefix_len + 3) = ellipsis


(***************************************************************************)
(* C25: in calculate_pi_spigot, an outer step that yields q = 10 while     *)
(* nines > 0 commits the pending predigit as predigit + 1 and every        *)
(* buffered 9 as a 0 at its own decimal place: pi gains predigit + 1 at    *)
(* the place of the multiplier and nothing at the places of the 9s, the    *)
(* multiplier moves past the predigit and the 9s, and afterwards           *)
(* predigit = 0 and nines = 0.                                             *)
(***************************************************************************)
C25_CarryTurnsNinesIntoZeros ==
  [][(pc = "spigot" /\ j <= spigot_N(precision)
        /\ spigot_digit(A).q = 10 /\ nines > 0)
       => /\ pi' = add_scaled(pi, predigit + 1, multiplier)
          /\ multiplier' = multiplier + 1 + nines
          /\ predigit' = 0
          /\ nines' = 0]_vars

(***************************************************************************)
(* C26: the method indices that method_selection_menu can return are       *)
(* exactly the indices 0..6 that the dispatcher handles: an index that is  *)
(* returned is one of 0..6, and from every index below 6 a press of Right  *)
(* moves the selection on to the next one, so that each of the seven       *)
(* algorithms, Spigot (5) and BBP (6) among them, can be selected.         *)
(***************************************************************************)
C26_MenuReturnsEveryMethod ==
  [][pc = "method_menu"
       => /\ pc' = "precision_menu" => method' \in 0..6
          /\ ( /\ is_button_just_pressed({"PAD_BUTTON_RIGHT"}, {"WPAD_BUTTON_RIGHT"})'
               /\ ~is_button_just_pressed({"PAD_BUTTON_LEFT"}, {"WPAD_BUTTON_LEFT"})'
               /\ ~button_last.right
               /\ selected_index < 6 )
               => selected_index' = selected_index + 1]_vars

(***************************************************************************)
(* C27: for every precision in 1..50 and every loop index k that a series  *)
(* visits, the native int expressions of its term stay within the signed   *)
(* 32-bit range: 13591409 + 545140134 * k of calculate_pi_chudnovsky and   *)
(* 1103 + 26390 * k of calculate_pi_ramanujan are at most INT_MAX.         *)
(***************************************************************************)
C27_IntExpressionsInRange ==
  /\ (pc = "chudnovsky" /\ locals.k < locals.iterations)
       => /\ mpf_cmp(mpf_add(mpf_of_int(13591409),
                             mpf_mul(mpf_of_int(545140134), mpf_of_int(locals.k))),
                     mpf_of_int(INT_MAX)) <= 0
          /\ 6 * locals.k <= INT_MAX
  /\ (pc = "ramanujan" /\ locals.k < locals.iterations)
       => /\ 1103 + 26390 * locals.k <= INT_MAX
          /\ 4 * locals.k <= INT_MAX

(***************************************************************************)
(* C28: a single press causes at most one screen transition.  At the first *)
(* poll_inputs of method_selection_menu after the results page (the only   *)
(* time the held buttons of the last scan differ from wii_state), a button *)
(* A, B or Home that is still held from the press that left the results    *)
(* page is not reported as just pressed, and the menu stays on screen.     *)
(***************************************************************************)
C28_OnePressOneTransition ==
  [][(pc = "method_menu" /\ wpad_held # wii_state)
       => \A b \in (wpad_held \cap wpad_held')
                     \cap {"WPAD_BUTTON_A", "WPAD_BUTTON_B", "WPAD_BUTTON_HOME"} :
            /\ ~is_button_just_pressed({}, {b})'
            /\ pc' = "method_menu"]_vars

(***************************************************************************)
(* C29: a report's mismatch index is the sentinel -1 only for a success    *)
(* report: whenever get_mismatch_index() returns -1, the last line of the  *)
(* report is 'All N digit(s) after the decimal are correct!'.              *)
(***************************************************************************)
C29_SentinelOnlyForSuccess ==
  (pc = "reported" /\ report.mismatch_index = -1) =>
    /\ report.report_lines # <<>>
    /\ report.report_lines[Len(report.report_lines)]
         = <<"All ", to_string(precision), " digit(s) after the decimal are correct!">>

(***************************************************************************)
(* C29, amended: the mismatch index is -1 for a success report and for the *)
(* invalid-input report.  When it is -1, the report of a positive value    *)
(* ends with the 'All N digit(s)' line after the two preview lines and the *)
(* report of a non-positive value is the single 'Invalid input' line; when *)
(* it is not -1, the value is positive and the report ends with the 'First *)
(* mismatch at' line of that index.                                        *)
(***************************************************************************)
C29_SentinelForSuccessOrInvalidInput ==
  pc = "reported" =>
    IF report.mismatch_index = -1
    THEN IF value.sgn > 0
         THEN /\ Len(report.report_lines) = 3
              /\ report.report_lines[3]
                   = <<"All ", to_string(precision), " digit(s) after the decimal are correct!">>
         ELSE report.report_lines
                = << <<"Invalid input: Pi cannot be less than or equal to zero.">> >>
    ELSE /\ value.sgn > 0
         /\ Len(report.report_lines) = 4
         /\ report.report_lines[4] = mismatch_line(report.mismatch_index)

C29_Witness ==
  /\ pc = "reported"
  /\ report.mismatch_index = -1
  /\ value.sgn <= 0
  /\ report.report_lines[Len(report.report_lines)]
       # <<"All ", to_string(precision), " digit(s) after the decimal are correct!">>

(***************************************************************************)
(* C30: in calculate_pi_spigot, for every precision in 1..50 and every     *)
(* outer step j in 1..precision + 2, the digit q that is left after        *)
(* q = q / 10 satisfies 0 <= q <= 10, so the step falls into exactly one   *)
(* of the three branches: the 9, the 10, or an ordinary digit 0..8.        *)
(***************************************************************************)
C30_SpigotDigitInRange ==
  (pc = "spigot" /\ precision \in PRECISION_MIN..PRECISION_MAX
     /\ j \in 1..(precision + 2)) =>
    LET q == spigot_digit(A).q
    IN  /\ 0 <= q /\ q <= 10
        /\ Cardinality({b \in {"nine", "ten", "digit"} :
                          \/ b = "nine" /\ q = 9
                          \/ b = "ten" /\ q = 10
                          \/ b = "digit" /\ q \in 0..8}) = 1

C30_Witness ==
  /\ pc = "spigot"
  /\ precision = PRECISION_MAX
  /\ j \in 1..(precision + 2)
  /\ spigot_digit(A).q = 10
====
